---- MODULE Spec2Model ----
(***************************************************************************)
(* Model of the sculpt engine of source/blender/editors/sculpt_paint/      *)
(* sculpt.c: the symmetry driver and stroke lifecycle, proxy combination,  *)
(* flood fill, connected components, fake neighbours and valence caching.  *)
(***************************************************************************)
EXTENDS Integers, Sequences, FiniteSets, TLC

VARIABLES
  pin, pout,              \* a pure function's arguments and its return value
  pbvh_type,              \* BKE_pbvh_type(ss->pbvh)
  medge,                  \* ss->medge / the BMesh edges: a sequence of <<v1, v2>>
  hidden,                 \* vertices with ME_HIDE / BM_ELEM_HIDDEN
  fset_hidden,            \* vertices flagged SCULPTVERT_VERT_FSET_HIDDEN
  use_fake_neighbors,     \* ss->fake_neighbors.use_fake_neighbors
  fake_neighbor_index,    \* ss->fake_neighbors.fake_neighbor_index (<<>> while NULL)
  flood,                  \* the SculptFloodFill and the position of its execute loop
  flood_calls,            \* the visitor invocations of the current flood fill
  co,                     \* vertex coordinates, by vertex index
  connected_component,    \* ss->vertex_info.connected_component (<<>> while NULL)
  current_max_distance,   \* ss->fake_neighbors.current_max_distance
  fake_pc,                \* position of the loop of SCULPT_fake_neighbors_ensure
  msculptvert,            \* MSculptVert of each vertex: NEED_VALENCE flag and valence
  topology_edits,         \* number of mesh edits made since the start
  sd,                     \* Sculpt settings, the active brush and the object's modifiers
  cache,                  \* ss->cache: <<>> while NULL, else <<the StrokeCache>>
  stroke,                 \* the PaintStroke of the running operator
  log,                    \* what the last stroke step invoked, in order
  vdata,                  \* mask, colour and face set of each vertex
  proxies,                \* the proxies of each PBVH node
  deform,                 \* pre-deformation and shape-key coordinates
  pre_stroke,             \* the mesh when the stroke started (the undo log's snapshot)
  fmesh,                  \* faces, ss->face_sets and the NEED_BOUNDARY flags (<<>> if unused)
  bm,                     \* ss->bm with the active vertex and face handles (<<>> if unused)
  tasks                   \* the tasks running SCULPT_vertex_valence_get (<<>> if unused)

meshVars == <<pbvh_type, medge, hidden, fset_hidden, fmesh, bm, tasks>>
fakeVars == <<use_fake_neighbors, fake_neighbor_index>>
ccVars == <<co, connected_component, current_max_distance, fake_pc>>
mvVars == <<msculptvert, topology_edits>>
strokeVars == <<sd, cache, stroke, log, vdata, proxies, deform, pre_stroke>>
floodVars == <<flood, flood_calls>>
pureVars == <<pin, pout>>

vars == <<pin, pout, pbvh_type, medge, hidden, fset_hidden, use_fake_neighbors,
          fake_neighbor_index, flood, flood_calls, co, connected_component,
          current_max_distance, fake_pc, msculptvert, topology_edits, sd, cache, stroke,
          log, vdata, proxies, deform, pre_stroke, fmesh, bm, tasks>>

(***************************************************************************)
(* Integer helpers for C semantics.                                        *)
(***************************************************************************)

\* Bitwise AND of two non-negative integers (the C operator &).
RECURSIVE BitAnd(_, _)
BitAnd(a, b) ==
  IF a = 0 \/ b = 0 THEN 0
  ELSE (IF a % 2 = 1 /\ b % 2 = 1 THEN 1 ELSE 0) + 2 * BitAnd(a \div 2, b \div 2)


\* pout is the empty sequence until the function has been applied.
NoResult == <<>>

\* No stroke operator is running and no stroke data exists.
StrokeIdle ==
  /\ sd = <<>>
  /\ cache = <<>>
  /\ stroke = [phase |-> "none"]
  /\ log = <<>>
  /\ vdata = <<>>
  /\ proxies = <<>>
  /\ deform = <<>>
  /\ pre_stroke = <<>>

(***************************************************************************)
(* The mesh: vertices, edges, visibility, vertex references.               *)
(***************************************************************************)

\* Number of vertices of the mesh (SCULPT_vertex_count_get).
NumVerts == 3
PBVH_REF_NONE == -1
FAKE_NEIGHBOR_NONE == -1

\* Address of the first BMVert: on PBVH_BMESH a PBVHVertRef holds a pointer.
BMVertBase == 100

VertIndices == 0..(NumVerts - 1)

\* BKE_pbvh_index_to_vertex
BKE_pbvh_index_to_vertex(type, i) == IF type = "BMESH" THEN BMVertBase + i ELSE i

\* BKE_pbvh_vertex_to_index (BM_elem_index_get on PBVH_BMESH)
BKE_pbvh_vertex_to_index(type, v) == IF type = "BMESH" THEN v - BMVertBase ELSE v

VertRefs(type) == {BKE_pbvh_index_to_vertex(type, i) : i \in VertIndices}

\* The visibility test that accepts every vertex.
SCULPT_vertex_visible_get_always(type, hid, v) == TRUE

\* bool SCULPT_vertex_visible_get(SculptSession *ss, PBVHVertRef index)
SCULPT_vertex_visible_get(type, hid, v) == BKE_pbvh_vertex_to_index(type, v) \notin hid

EdgePairs == {p \in VertIndices \X VertIndices : p[1] < p[2]}

\* The edges of a set of vertex pairs, in index order.
RECURSIVE EdgeList(_)
EdgeList(ps) ==
  IF ps = {} THEN <<>>
  ELSE LET p == CHOOSE q \in ps : \A r \in ps : q[1] * NumVerts + q[2] <= r[1] * NumVerts + r[2]
       IN  <<p>> \o EdgeList(ps \ {p})

\* The meshes of the initial states: every set of edges, and each of them with
\* its first edge doubled (two edges between the same two vertices).
MeshEdgeLists ==
  {EdgeList(ps) : ps \in SUBSET EdgePairs}
    \cup {<<EdgeList(ps)[1]>> \o EdgeList(ps) : ps \in (SUBSET EdgePairs) \ {{}}}

\* The initial states hide at most one vertex.
HiddenSets == {{}} \cup {{v} : v \in VertIndices}

\* State of the mesh-side variables in the specifications that do not use them.
MeshIdle ==
  /\ pbvh_type = "FACES"
  /\ medge = <<>>
  /\ hidden = {}
  /\ fset_hidden = {}
  /\ fmesh = <<>>
  /\ bm = <<>>
  /\ tasks = <<>>
  /\ use_fake_neighbors = FALSE
  /\ fake_neighbor_index = <<>>
  /\ flood = [phase |-> "none"]
  /\ flood_calls = <<>>
  /\ co = <<>>
  /\ connected_component = <<>>
  /\ current_max_distance = 0
  /\ fake_pc = [i |-> PBVH_REF_NONE]
  /\ msculptvert = <<>>
  /\ topology_edits = 0
  /\ StrokeIdle

(***************************************************************************)
(* Neighbour iteration.                                                    *)
(***************************************************************************)

\* sculpt_vertex_neighbor_add: append unless the vertex is already listed.
sculpt_vertex_neighbor_add(iter, neighbor, edge) ==
  IF \E i \in 1..Len(iter) : iter[i].vertex = neighbor
    THEN iter
    ELSE Append(iter, [vertex |-> neighbor, edge |-> edge])

\* sculpt_vertex_neighbor_add_nocheck: append.
sculpt_vertex_neighbor_add_nocheck(iter, neighbor, edge) ==
  Append(iter, [vertex |-> neighbor, edge |-> edge])

\* The fake-neighbour entry appended at the end of every neighbour query.
AddFakeNeighbor(iter, use_fake, fake, index) ==
  IF use_fake /\ fake # <<>> /\ fake[index + 1] # FAKE_NEIGHBOR_NONE
    THEN sculpt_vertex_neighbor_add(iter, fake[index + 1], PBVH_REF_NONE)
    ELSE iter

OtherVert(e, i) == IF e[1] = i THEN e[2] ELSE e[1]

\* The real neighbours of vertex index i over edges k..Len(edges), appended to iter.
RECURSIVE EdgeNeighbors(_, _, _, _, _, _)
EdgeNeighbors(type, edges, fsh, i, k, iter) ==
  IF k > Len(edges) THEN iter
  ELSE IF i \notin {edges[k][1], edges[k][2]}
    THEN EdgeNeighbors(type, edges, fsh, i, k + 1, iter)
  ELSE
    LET v2 == OtherVert(edges[k], i)
        ref == BKE_pbvh_index_to_vertex(type, v2)
    IN  EdgeNeighbors(type, edges, fsh, i, k + 1,
          CASE type = "FACES" -> sculpt_vertex_neighbor_add(iter, ref, k)
            [] type = "FACES_VEMAP" ->
                 IF v2 \in fsh THEN iter ELSE sculpt_vertex_neighbor_add(iter, ref, k)
            [] OTHER ->
                 IF v2 \in fsh THEN iter ELSE sculpt_vertex_neighbor_add_nocheck(iter, ref, k))

\* SCULPT_vertex_neighbors_get: the neighbour list of vertex v.
SCULPT_vertex_neighbors_get(type, edges, fsh, use_fake, fake, v) ==
  LET i == BKE_pbvh_vertex_to_index(type, v)
  IN  AddFakeNeighbor(EdgeNeighbors(type, edges, fsh, i, 1, <<>>), use_fake, fake, i)

(***************************************************************************)
(* Flood fill.                                                             *)
(***************************************************************************)

\* Largest number of seeds added to one flood fill.
MaxSeeds == 2

FloodMeshInit ==
  /\ pbvh_type \in {"FACES", "BMESH"}
  /\ medge \in MeshEdgeLists
  /\ pbvh_type = "FACES" => \A a, b \in 1..Len(medge) : medge[a] = medge[b] => a = b
  /\ hidden \in HiddenSets
  /\ fset_hidden = {}
  /\ fmesh = <<>>
  /\ bm = <<>>
  /\ tasks = <<>>
  /\ use_fake_neighbors = FALSE
  /\ fake_neighbor_index = <<>>

FloodInit ==
  /\ pin = [fn |-> "none"]
  /\ pout = NoResult
  /\ FloodMeshInit
  /\ flood = [phase |-> "none"]
  /\ flood_calls = <<>>
  /\ co = <<>>
  /\ connected_component = <<>>
  /\ current_max_distance = 0
  /\ fake_pc = [i |-> PBVH_REF_NONE]
  /\ msculptvert = <<>>
  /\ topology_edits = 0
  /\ StrokeIdle

NewFlood ==
  [phase |-> "seeding", queue |-> <<>>, visited_vertices |-> {},
   from_v |-> PBVH_REF_NONE, ni |-> <<>>, i |-> 0]

\* SCULPT_floodfill_init
Floodfill_init ==
  /\ flood.phase = "none"
  /\ flood' = NewFlood
  /\ flood_calls' = <<>>
  /\ UNCHANGED <<pureVars, meshVars, fakeVars, ccVars, mvVars, strokeVars>>

\* SCULPT_floodfill_add_initial
Floodfill_add_initial ==
  /\ flood.phase = "seeding"
  /\ Len(flood.queue) < MaxSeeds
  /\ \E v \in VertRefs(pbvh_type) :
       flood' = [flood EXCEPT !.queue = Append(@, v)]
  /\ UNCHANGED <<pureVars, meshVars, fakeVars, ccVars, mvVars, flood_calls, strokeVars>>

\* SCULPT_floodfill_add_and_skip_initial
Floodfill_add_and_skip_initial ==
  /\ flood.phase = "seeding"
  /\ Len(flood.queue) < MaxSeeds
  /\ \E v \in VertRefs(pbvh_type) :
       flood' = [flood EXCEPT !.queue = Append(@, v),
                   !.visited_vertices = @ \cup {BKE_pbvh_vertex_to_index(pbvh_type, v)}]
  /\ UNCHANGED <<pureVars, meshVars, fakeVars, ccVars, mvVars, flood_calls, strokeVars>>

\* When the neighbour loop is over (i = 0) its locals from_v and ni are dead.
FloodLoopEnd(f) ==
  IF f.i = 0 THEN [f EXCEPT !.from_v = PBVH_REF_NONE, !.ni = <<>>] ELSE f

\* The visited test that never finds a vertex visited.
FloodVisitedTest_never(visited, to_index) == FALSE

\* BLI_BITMAP_TEST(flood->visited_vertices, to_index)
FloodVisitedTest(visited, to_index) == to_index \in visited

\* SCULPT_floodfill_execute whose pop leaves the vertex in the queue.
FloodPop_peek(type, edges, fsh, use_fake, fake, f) ==
  LET from_v == Head(f.queue)
      ni == SCULPT_vertex_neighbors_get(type, edges, fsh, use_fake, fake, from_v)
  IN  FloodLoopEnd([f EXCEPT !.phase = "executing",
                      !.from_v = from_v, !.ni = ni, !.i = Len(ni)])

\* SCULPT_floodfill_execute: BLI_gsqueue_pop and the neighbour query of from_v.
FloodPop(type, edges, fsh, use_fake, fake, f) ==
  LET from_v == Head(f.queue)
      ni == SCULPT_vertex_neighbors_get(type, edges, fsh, use_fake, fake, from_v)
  IN  FloodLoopEnd([f EXCEPT !.phase = "executing", !.queue = Tail(@),
                      !.from_v = from_v, !.ni = ni, !.i = Len(ni)])

\* SCULPT_floodfill_execute: the two `continue` tests of the neighbour loop.
FloodSkips(type, hid, f) ==
  LET to_v == f.ni[f.i].vertex
  IN  \/ FloodVisitedTest(f.visited_vertices, BKE_pbvh_vertex_to_index(type, to_v))
      \/ ~SCULPT_vertex_visible_get(type, hid, to_v)

FloodSkip(f) == FloodLoopEnd([f EXCEPT !.i = @ - 1])

\* SCULPT_floodfill_execute: mark to_v visited, then push it if func returned true.
FloodVisit(type, f, func_result) ==
  LET to_v == f.ni[f.i].vertex
  IN  FloodLoopEnd([f EXCEPT !.i = @ - 1,
                      !.visited_vertices = @ \cup {BKE_pbvh_vertex_to_index(type, to_v)},
                      !.queue = IF func_result THEN Append(@, to_v) ELSE @])

\* SCULPT_floodfill_execute: the neighbour loop of the previous vertex is over
\* (i = 0); pop the next vertex and query its neighbours.
Floodfill_execute_pop ==
  /\ flood.phase \in {"seeding", "executing"}
  /\ flood.i = 0
  /\ Len(flood.queue) > 0
  /\ flood' = FloodPop(pbvh_type, medge, fset_hidden, use_fake_neighbors,
                       fake_neighbor_index, flood)
  /\ UNCHANGED <<pureVars, meshVars, fakeVars, ccVars, mvVars, flood_calls, strokeVars>>

\* SCULPT_floodfill_execute: one iteration of the neighbour loop, last entry first.
Floodfill_execute_neighbor ==
  /\ flood.phase = "executing"
  /\ flood.i >= 1
  /\ IF FloodSkips(pbvh_type, hidden, flood)
       THEN /\ flood' = FloodSkip(flood)
            /\ UNCHANGED flood_calls
       ELSE \E func_result \in BOOLEAN :
              /\ flood_calls' = Append(flood_calls, <<flood.from_v, flood.ni[flood.i].vertex>>)
              /\ flood' = FloodVisit(pbvh_type, flood, func_result)
  /\ UNCHANGED <<pureVars, meshVars, fakeVars, ccVars, mvVars, strokeVars>>

\* SCULPT_floodfill_execute returns when the queue is empty.
Floodfill_execute_return ==
  /\ flood.phase \in {"seeding", "executing"}
  /\ flood.i = 0
  /\ Len(flood.queue) = 0
  /\ flood' = [flood EXCEPT !.phase = "done"]
  /\ UNCHANGED <<pureVars, meshVars, fakeVars, ccVars, mvVars, flood_calls, strokeVars>>

\* SCULPT_floodfill_free
Floodfill_free ==
  /\ flood.phase = "done"
  /\ flood' = [phase |-> "none"]
  /\ flood_calls' = <<>>
  /\ UNCHANGED <<pureVars, meshVars, fakeVars, ccVars, mvVars, strokeVars>>

FloodNext ==
  \/ Floodfill_init
  \/ Floodfill_add_initial
  \/ Floodfill_add_and_skip_initial
  \/ Floodfill_execute_pop
  \/ Floodfill_execute_neighbor
  \/ Floodfill_execute_return
  \/ Floodfill_free

SpecFlood == FloodInit /\ [][FloodNext]_vars

\* The meshes of the fair specification: every two vertices joined by an
\* edge, the same with the first edge doubled, and a chain of the vertices.
FairMeshEdgeLists ==
  {EdgeList(EdgePairs),
   <<EdgeList(EdgePairs)[1]>> \o EdgeList(EdgePairs),
   EdgeList({p \in EdgePairs : p[2] = p[1] + 1})}

\* A call of SCULPT_floodfill_execute runs on: the loop takes its next step
\* whenever it has one.
FloodFairInit == FloodInit /\ medge \in FairMeshEdgeLists

SpecFloodFair ==
  /\ FloodFairInit
  /\ [][FloodNext]_vars
  /\ WF_vars(Floodfill_execute_pop)
  /\ WF_vars(Floodfill_execute_neighbor)
  /\ WF_vars(Floodfill_execute_return)

\* C3: during one SCULPT_floodfill_execute run the visitor is invoked at
\* most once with any given vertex as its `to` argument.
C3_VisitorAtMostOncePerTo ==
  \A a, b \in 1..Len(flood_calls) :
    flood_calls[a][2] = flood_calls[b][2] => a = b

\* A vertex reachable over two paths (and from two seeds) has been visited.
C3_Witness ==
  /\ flood.phase = "done"
  /\ Len(flood_calls) >= 2
  /\ \E a \in 1..Len(flood_calls) :
       LET to_v == flood_calls[a][2]
           to_i == BKE_pbvh_vertex_to_index(pbvh_type, to_v)
       IN  Cardinality({k \in 1..Len(medge) : to_i \in {medge[k][1], medge[k][2]}}) >= 2

(***************************************************************************)
(* Connected components and fake neighbours.                               *)
(***************************************************************************)

SCULPT_TOPOLOGY_ID_NONE == 0
SCULPT_TOPOLOGY_ID_DEFAULT == 1

\* The session fields the mesh queries read.
Session ==
  [pbvh_type |-> pbvh_type, medge |-> medge, hidden |-> hidden,
   fset_hidden |-> fset_hidden, use_fake_neighbors |-> use_fake_neighbors,
   fake_neighbor_index |-> fake_neighbor_index, co |-> co]

\* SCULPT_connected_components_floodfill_cb: label from_v and to_v.
SCULPT_connected_components_floodfill_cb(ss, cc, from_v, to_v, next_id) ==
  [cc EXCEPT ![BKE_pbvh_vertex_to_index(ss.pbvh_type, from_v) + 1] = next_id,
             ![BKE_pbvh_vertex_to_index(ss.pbvh_type, to_v) + 1] = next_id]

\* SCULPT_floodfill_execute with SCULPT_connected_components_floodfill_cb.
RECURSIVE ComponentFloodfill(_, _, _, _)
ComponentFloodfill(ss, f, cc, next_id) ==
  IF f.i >= 1 THEN
    IF FloodSkips(ss.pbvh_type, ss.hidden, f)
      THEN ComponentFloodfill(ss, FloodSkip(f), cc, next_id)
      ELSE ComponentFloodfill(ss, FloodVisit(ss.pbvh_type, f, TRUE),
             SCULPT_connected_components_floodfill_cb(ss, cc, f.from_v, f.ni[f.i].vertex,
                                                      next_id),
             next_id)
  ELSE IF Len(f.queue) > 0 THEN
    ComponentFloodfill(ss,
      FloodPop(ss.pbvh_type, ss.medge, ss.fset_hidden, ss.use_fake_neighbors,
               ss.fake_neighbor_index, f),
      cc, next_id)
  ELSE cc

\* The vertex loop of SCULPT_connected_components_ensure, from index i on.
RECURSIVE ComponentLoop(_, _, _, _)
ComponentLoop(ss, i, cc, next_id) ==
  IF i >= NumVerts THEN cc
  ELSE
    LET vertex == BKE_pbvh_index_to_vertex(ss.pbvh_type, i)
    IN  IF ~SCULPT_vertex_visible_get(ss.pbvh_type, ss.hidden, vertex)
          THEN ComponentLoop(ss, i + 1, cc, next_id)
        ELSE IF cc[i + 1] = SCULPT_TOPOLOGY_ID_NONE
          THEN ComponentLoop(ss, i + 1,
                 ComponentFloodfill(ss, [NewFlood EXCEPT !.queue = <<vertex>>], cc, next_id),
                 next_id + 1)
        ELSE ComponentLoop(ss, i + 1, cc, next_id)

\* SCULPT_connected_components_ensure
SCULPT_connected_components_ensure(ss, cc) ==
  IF cc # <<>> THEN cc
  ELSE ComponentLoop(ss, 0, [i \in 1..NumVerts |-> SCULPT_TOPOLOGY_ID_NONE], 0)

\* SCULPT_vertex_get_connected_component
SCULPT_vertex_get_connected_component(ss, cc, vertex) ==
  IF cc # <<>> THEN cc[BKE_pbvh_vertex_to_index(ss.pbvh_type, vertex) + 1]
  ELSE SCULPT_TOPOLOGY_ID_DEFAULT

\* SCULPT_fake_neighbor_init
SCULPT_fake_neighbor_init == [i \in 1..NumVerts |-> FAKE_NEIGHBOR_NONE]

\* The add that records the link on v_index_a only.
SCULPT_fake_neighbor_add_oneway(ss, fake, v_index_a, v_index_b) ==
  LET tablea == BKE_pbvh_vertex_to_index(ss.pbvh_type, v_index_a)
  IN  IF fake[tablea + 1] = FAKE_NEIGHBOR_NONE
        THEN [fake EXCEPT ![tablea + 1] = v_index_b]
        ELSE fake

\* SCULPT_fake_neighbor_add
SCULPT_fake_neighbor_add(ss, fake, v_index_a, v_index_b) ==
  LET tablea == BKE_pbvh_vertex_to_index(ss.pbvh_type, v_index_a)
      tableb == BKE_pbvh_vertex_to_index(ss.pbvh_type, v_index_b)
  IN  IF fake[tablea + 1] = FAKE_NEIGHBOR_NONE
        THEN [fake EXCEPT ![tablea + 1] = v_index_b, ![tableb + 1] = v_index_a]
        ELSE fake

\* len_squared_v3v3
len_squared_v3v3(a, b) ==
  (a[1] - b[1]) * (a[1] - b[1]) + (a[2] - b[2]) * (a[2] - b[2])
    + (a[3] - b[3]) * (a[3] - b[3])

\* do_fake_neighbor_search_task_cb: the vertices that may become nearest_vertex.
\* The vertex iterator (PBVH_ITER_UNIQUE) passes over hidden vertices.
FakeNeighborCandidates(ss, cc, fake, vertex, max_distance) ==
  {vd \in VertRefs(ss.pbvh_type) :
     LET index == BKE_pbvh_vertex_to_index(ss.pbvh_type, vd)
     IN  /\ SCULPT_vertex_visible_get(ss.pbvh_type, ss.hidden, vd)
         /\ SCULPT_vertex_get_connected_component(ss, cc, vd)
              # SCULPT_vertex_get_connected_component(ss, cc, vertex)
         /\ fake[index + 1] = FAKE_NEIGHBOR_NONE
         /\ len_squared_v3v3(ss.co[index + 1],
                             ss.co[BKE_pbvh_vertex_to_index(ss.pbvh_type, vertex) + 1])
              < max_distance * max_distance}

\* SCULPT_fake_neighbor_search: the values the reduction over the node chunks
\* can return, a candidate at minimal distance (any of them on a tie) or none.
SCULPT_fake_neighbor_search(ss, cc, fake, vertex, max_distance) ==
  LET cand == FakeNeighborCandidates(ss, cc, fake, vertex, max_distance)
      me == ss.co[BKE_pbvh_vertex_to_index(ss.pbvh_type, vertex) + 1]
      dist(v) == len_squared_v3v3(ss.co[BKE_pbvh_vertex_to_index(ss.pbvh_type, v) + 1], me)
  IN  IF cand = {} THEN {PBVH_REF_NONE}
      ELSE {v \in cand : \A w \in cand : dist(v) <= dist(w)}

\* Coordinates and search distances of the initial states.
Points == {<<0, 0, 0>>, <<1, 0, 0>>, <<2, 0, 0>>}
MaxDistances == {2, 3}

\* Largest number of topology edits made in one behaviour.
MaxEdits == 1

FakeInit ==
  /\ pin = [fn |-> "none"]
  /\ pout = NoResult
  /\ pbvh_type \in {"FACES", "BMESH"}
  /\ medge \in {EdgeList(ps) : ps \in SUBSET EdgePairs}
  /\ hidden \in HiddenSets
  /\ fset_hidden = {}
  /\ fmesh = <<>>
  /\ bm = <<>>
  /\ tasks = <<>>
  /\ use_fake_neighbors = FALSE
  /\ fake_neighbor_index = <<>>
  /\ flood = [phase |-> "none"]
  /\ flood_calls = <<>>
  /\ co \in {c \in [1..NumVerts -> Points] : \A i \in 1..(NumVerts - 1) : c[i][1] <= c[i + 1][1]}
  /\ connected_component = <<>>
  /\ current_max_distance = 0
  /\ fake_pc = [i |-> PBVH_REF_NONE]
  /\ msculptvert = <<>>
  /\ topology_edits = 0
  /\ StrokeIdle

\* SCULPT_fake_neighbors_ensure up to its vertex loop.
Fake_neighbors_ensure_begin ==
  /\ fake_pc.i = PBVH_REF_NONE
  /\ \E max_dist \in MaxDistances :
       IF fake_neighbor_index # <<>> /\ current_max_distance = max_dist
         THEN UNCHANGED <<connected_component, fake_neighbor_index, current_max_distance,
                          fake_pc>>
         ELSE /\ connected_component' =
                   SCULPT_connected_components_ensure(Session, connected_component)
              /\ fake_neighbor_index' = SCULPT_fake_neighbor_init
              /\ current_max_distance' = max_dist
              /\ fake_pc' = [i |-> 0, max_dist |-> max_dist]
  /\ pin' = [fn |-> "fake_neighbors_ensure"]
  /\ UNCHANGED <<pout, meshVars, use_fake_neighbors, floodVars, co, mvVars, strokeVars>>

\* SCULPT_fake_neighbors_ensure: one iteration of the vertex loop.
Fake_neighbors_ensure_vertex ==
  /\ fake_pc.i # PBVH_REF_NONE
  /\ LET i == fake_pc.i
         from_v == BKE_pbvh_index_to_vertex(pbvh_type, i)
         next == IF i + 1 < NumVerts THEN [fake_pc EXCEPT !.i = i + 1]
                 ELSE [i |-> PBVH_REF_NONE]
     IN  /\ fake_pc' = next
         /\ IF fake_neighbor_index[i + 1] = FAKE_NEIGHBOR_NONE
              THEN \E to_v \in SCULPT_fake_neighbor_search(Session, connected_component,
                                  fake_neighbor_index, from_v, fake_pc.max_dist) :
                     fake_neighbor_index' =
                       IF to_v # PBVH_REF_NONE
                         THEN SCULPT_fake_neighbor_add(Session, fake_neighbor_index,
                                                       from_v, to_v)
                         ELSE fake_neighbor_index
              ELSE UNCHANGED fake_neighbor_index
  /\ UNCHANGED <<pureVars, meshVars, use_fake_neighbors, floodVars, co, connected_component,
                 current_max_distance, mvVars, strokeVars>>

\* SCULPT_fake_neighbors_enable
Fake_neighbors_enable ==
  /\ fake_pc.i = PBVH_REF_NONE
  /\ fake_neighbor_index # <<>>
  /\ use_fake_neighbors' = TRUE
  /\ UNCHANGED <<pureVars, meshVars, fake_neighbor_index, floodVars, ccVars, mvVars, strokeVars>>

\* SCULPT_fake_neighbors_disable
Fake_neighbors_disable ==
  /\ fake_pc.i = PBVH_REF_NONE
  /\ fake_neighbor_index # <<>>
  /\ use_fake_neighbors' = FALSE
  /\ UNCHANGED <<pureVars, meshVars, fake_neighbor_index, floodVars, ccVars, mvVars, strokeVars>>

\* sculpt_topology_update on the dynamic mesh: the index based vertex info is
\* freed, and the update makes or removes an edge.  Updates made before the
\* table exists lead to meshes the initial states contain already.
Fake_topology_update ==
  /\ fake_pc.i = PBVH_REF_NONE
  /\ fake_neighbor_index # <<>>
  /\ pbvh_type = "BMESH"
  /\ topology_edits < MaxEdits
  /\ topology_edits' = topology_edits + 1
  /\ \E p \in EdgePairs :
       LET pairs == {medge[k] : k \in 1..Len(medge)}
       IN  medge' = EdgeList(IF p \in pairs THEN pairs \ {p} ELSE pairs \cup {p})
  /\ connected_component' = <<>>
  /\ pin' = [fn |-> "topology_update"]
  /\ UNCHANGED <<pout, pbvh_type, hidden, fset_hidden, fmesh, bm, tasks, fakeVars, floodVars,
                 co, current_max_distance, fake_pc, msculptvert, strokeVars>>

FakeNext ==
  \/ Fake_topology_update
  \/ Fake_neighbors_ensure_begin
  \/ Fake_neighbors_ensure_vertex
  \/ Fake_neighbors_enable
  \/ Fake_neighbors_disable

SpecFake == FakeInit /\ [][FakeNext]_vars

\* C4: after SCULPT_fake_neighbors_ensure has run, if the fake neighbour
\* recorded for A is B then the fake neighbour recorded for B is A.
C4_FakeNeighborSymmetric ==
  (fake_pc.i = PBVH_REF_NONE /\ fake_neighbor_index # <<>>) =>
    \A a \in VertIndices :
      fake_neighbor_index[a + 1] # FAKE_NEIGHBOR_NONE =>
        fake_neighbor_index[BKE_pbvh_vertex_to_index(pbvh_type, fake_neighbor_index[a + 1]) + 1]
          = BKE_pbvh_index_to_vertex(pbvh_type, a)

\* A finished ensure that linked a vertex to one of a higher and one of a lower index.
C4_Witness ==
  /\ fake_pc.i = PBVH_REF_NONE
  /\ fake_neighbor_index # <<>>
  /\ \E a \in VertIndices :
       /\ fake_neighbor_index[a + 1] # FAKE_NEIGHBOR_NONE
       /\ BKE_pbvh_vertex_to_index(pbvh_type, fake_neighbor_index[a + 1]) > a
  /\ \E a \in VertIndices : fake_neighbor_index[a + 1] = FAKE_NEIGHBOR_NONE

(***************************************************************************)
(* Cached valence.                                                         *)
(***************************************************************************)

\* SCULPT_vertex_get_sculptvert: the position of the vertex's MSculptVert.
SCULPT_vertex_get_sculptvert(type, vertex) == BKE_pbvh_vertex_to_index(type, vertex) + 1

\* The valence read that never recounts.
SCULPT_vertex_valence_get_norecount(ss, msv, vertex) ==
  LET mv == msv[SCULPT_vertex_get_sculptvert(ss.pbvh_type, vertex)]
  IN  [mv |-> [mv EXCEPT !.need_valence = FALSE], ret |-> mv.valence]

\* SCULPT_vertex_valence_get: the MSculptVert it leaves and the value it returns.
SCULPT_vertex_valence_get(ss, msv, vertex) ==
  LET mv == msv[SCULPT_vertex_get_sculptvert(ss.pbvh_type, vertex)]
      tot == Len(SCULPT_vertex_neighbors_get(ss.pbvh_type, ss.medge, ss.fset_hidden,
                                             ss.use_fake_neighbors, ss.fake_neighbor_index,
                                             vertex))
  IN  IF mv.need_valence
        THEN [mv |-> [need_valence |-> FALSE, valence |-> tot], ret |-> tot]
        ELSE [mv |-> mv, ret |-> mv.valence]


\* A fresh MSculptVert: no valence counted yet.
NewSculptVert == [need_valence |-> TRUE, valence |-> 0]

ValenceInit ==
  /\ pin = [fn |-> "none"]
  /\ pout = NoResult
  /\ pbvh_type \in {"FACES", "BMESH"}
  /\ medge \in MeshEdgeLists
  /\ pbvh_type = "FACES" => \A a, b \in 1..Len(medge) : medge[a] = medge[b] => a = b
  /\ hidden = {}
  /\ fset_hidden = {}
  /\ fmesh = <<>>
  /\ bm = <<>>
  /\ tasks = <<>>
  /\ use_fake_neighbors = FALSE
  /\ fake_neighbor_index = <<>>
  /\ flood = [phase |-> "none"]
  /\ flood_calls = <<>>
  /\ co = <<>>
  /\ connected_component = <<>>
  /\ current_max_distance = 0
  /\ fake_pc = [i |-> PBVH_REF_NONE]
  /\ msculptvert = [i \in 1..NumVerts |-> NewSculptVert]
  /\ topology_edits = 0
  /\ StrokeIdle

\* A call of SCULPT_vertex_valence_get.
Vertex_valence_get ==
  \E vertex \in VertRefs(pbvh_type) :
    LET r == SCULPT_vertex_valence_get(Session, msculptvert, vertex)
    IN  /\ pin' = [fn |-> "valence_get", vertex |-> vertex]
        /\ pout' = <<r.ret>>
        /\ msculptvert' =
             [msculptvert EXCEPT ![SCULPT_vertex_get_sculptvert(pbvh_type, vertex)] = r.mv]
        /\ UNCHANGED <<meshVars, fakeVars, floodVars, ccVars, topology_edits, strokeVars>>

\* A topology edit: one edge between two vertices appears or disappears and
\* both end vertices are flagged NEED_VALENCE.
Topology_edit ==
  \E p \in EdgePairs :
    LET pairs == {medge[k] : k \in 1..Len(medge)}
    IN  /\ topology_edits < MaxEdits
        /\ topology_edits' = topology_edits + 1
        /\ medge' = EdgeList(IF p \in pairs THEN pairs \ {p} ELSE pairs \cup {p})
        /\ msculptvert' = [i \in 1..NumVerts |->
                             IF (i - 1) \in {p[1], p[2]}
                               THEN [msculptvert[i] EXCEPT !.need_valence = TRUE]
                               ELSE msculptvert[i]]
        /\ pin' = [fn |-> "topology_edit"]
        /\ pout' = NoResult
        /\ UNCHANGED <<pbvh_type, hidden, fset_hidden, fmesh, bm, tasks, fakeVars, floodVars, ccVars, strokeVars>>

\* The face-set-hidden flag of a vertex is toggled; valences are not flagged.
Vertex_fset_hidden_toggle ==
  \E v \in VertIndices :
    /\ topology_edits < MaxEdits
    /\ topology_edits' = topology_edits + 1
    /\ fset_hidden' = IF v \in fset_hidden THEN fset_hidden \ {v} ELSE {v}
    /\ pin' = [fn |-> "fset_hidden_toggle"]
    /\ pout' = NoResult
    /\ UNCHANGED <<pbvh_type, medge, hidden, fmesh, bm, tasks, fakeVars, floodVars, ccVars, msculptvert, strokeVars>>

ValenceNext ==
  \/ Vertex_valence_get
  \/ Topology_edit
  \/ Vertex_fset_hidden_toggle

SpecValence == ValenceInit /\ [][ValenceNext]_vars

\* The neighbour count SCULPT_vertex_valence_get iterates over in this state.
NeighborCount(vertex) ==
  Len(SCULPT_vertex_neighbors_get(pbvh_type, medge, fset_hidden, use_fake_neighbors,
                                  fake_neighbor_index, vertex))

\* C5: a call of SCULPT_vertex_valence_get with NEED_VALENCE clear returns the
\* stored valence and leaves it; with NEED_VALENCE set it returns the current
\* neighbour count and stores it; the flag is clear afterwards, and a second
\* call that directly follows returns the same value.
C5_ValenceCached ==
  [][\A vertex \in VertRefs(pbvh_type) :
       pin' = [fn |-> "valence_get", vertex |-> vertex] =>
         LET mvi == SCULPT_vertex_get_sculptvert(pbvh_type, vertex)
         IN  /\ ~msculptvert'[mvi].need_valence
             /\ msculptvert'[mvi].valence = pout'[1]
             /\ ~msculptvert[mvi].need_valence => pout'[1] = msculptvert[mvi].valence
             /\ msculptvert[mvi].need_valence => pout'[1] = NeighborCount(vertex)'
             /\ pin = pin' => pout' = pout]_vars

\* A recount that changed the stored valence of a vertex with two neighbours,
\* read back again.
C5_Witness ==
  /\ pin.fn = "valence_get"
  /\ pout = <<2>>
  /\ NeighborCount(pin.vertex) # 2
  /\ ~msculptvert[SCULPT_vertex_get_sculptvert(pbvh_type, pin.vertex)].need_valence

(***************************************************************************)
(* Pure functions, applied to inputs drawn by PureInit.                    *)
(***************************************************************************)

\* Largest mirror-pass index tried as an input of the validity test.
MaxSymIter == 15


\* The validity test without the symm = 5 exclusion.
SCULPT_is_symmetry_iteration_valid_no5(i, symm) ==
  i = 0 \/ (BitAnd(symm, i) # 0 /\ (symm # 6 \/ (i # 3 /\ i # 5)))

\* bool SCULPT_is_symmetry_iteration_valid(char i, char symm)
SCULPT_is_symmetry_iteration_valid(i, symm) ==
  i = 0 \/ (BitAnd(symm, i) # 0 /\ (symm # 5 \/ i # 3) /\ (symm # 6 \/ (i # 3 /\ i # 5)))

PureInputs ==
  [fn : {"is_symmetry_iteration_valid"}, i : 0..MaxSymIter, symm : 0..7]

PureInit ==
  /\ pin \in PureInputs
  /\ pout = NoResult
  /\ MeshIdle

CallSymmetryIterationValid ==
  /\ pin.fn = "is_symmetry_iteration_valid"
  /\ pout = NoResult
  /\ pout' = <<SCULPT_is_symmetry_iteration_valid(pin.i, pin.symm)>>
  /\ UNCHANGED <<pin, meshVars, fakeVars, floodVars, ccVars, mvVars, strokeVars>>

PureNext == CallSymmetryIterationValid

SpecPure == PureInit /\ [][PureNext]_vars

\* C1: for symm in 0..7 and i in 0..symm the validity test answers TRUE
\* exactly when i is a bit-subset of symm (i & ~symm == 0).
C1_ValidIffSubset ==
  (pout # NoResult /\ pin.fn = "is_symmetry_iteration_valid" /\ pin.i <= pin.symm)
    => (pout[1] = (BitAnd(pin.i, 255 - pin.symm) = 0))

C1_Witness ==
  /\ pout = <<FALSE>>
  /\ pin.fn = "is_symmetry_iteration_valid"
  /\ pin.symm = 5 /\ pin.i = 3

(***************************************************************************)
(* Brush strokes: the stroke cache and the symmetry expansion.             *)
(***************************************************************************)

\* Vectors are triples of integers.
zero_v3 == <<0, 0, 0>>
add_v3_v3(a, b) == <<a[1] + b[1], a[2] + b[2], a[3] + b[3]>>

\* flip_v3_v3: negate x, y, z for the bits 1, 2, 4 of symm.
flip_v3_v3(v, symm) ==
  <<IF BitAnd(symm, 1) # 0 THEN -v[1] ELSE v[1],
    IF BitAnd(symm, 2) # 0 THEN -v[2] ELSE v[2],
    IF BitAnd(symm, 4) # 0 THEN -v[3] ELSE v[3]>>

\* mul_m4_v3 with the matrix rotate_m4 builds for an axis and q quarter turns.
RECURSIVE rotate_v3(_, _, _)
rotate_v3(v, axis, q) ==
  IF q = 0 THEN v
  ELSE rotate_v3(CASE axis = "X" -> <<v[1], -v[3], v[2]>>
                   [] axis = "Y" -> <<v[3], v[2], -v[1]>>
                   [] OTHER -> <<-v[2], v[1], v[3]>>,
                 axis, q - 1)

\* An angle is kept as the fraction i/n of a full turn (2 * pi * i / n); the
\* radial counts used divide 4, so it is a whole number of quarter turns.
QuarterTurns(angle) == (4 * angle.i) \div angle.n
NoAngle == [i |-> 0, n |-> 1]

\* The (int) cast of a float quotient: division that truncates toward zero.
TruncDiv(a, b) == IF a >= 0 THEN a \div b ELSE -((-a) \div b)

\* SCULPT_stroke_is_main_symmetry_pass
SCULPT_stroke_is_main_symmetry_pass(c) ==
  c.mirror_symmetry_pass = 0 /\ c.radial_symmetry_pass = 0 /\ c.tile_pass = 0

\* SCULPT_stroke_is_first_brush_step
SCULPT_stroke_is_first_brush_step(c) ==
  c.first_time /\ c.mirror_symmetry_pass = 0 /\ c.radial_symmetry_pass = 0 /\ c.tile_pass = 0

\* The length of the per-pass arrays of a command.
SCULPT_MAX_SYMMETRY_PASSES == 8

\* SCULPT_get_symmetry_pass
SCULPT_get_symmetry_pass(c) ==
  LET symidx == c.mirror_symmetry_pass + (c.radial_symmetry_pass * 8)
  IN  IF symidx >= SCULPT_MAX_SYMMETRY_PASSES THEN SCULPT_MAX_SYMMETRY_PASSES - 1
      ELSE symidx

\* The symmetry-pass fields of the stroke cache c.
PassFields(c) ==
  [mirror_symmetry_pass |-> c.mirror_symmetry_pass,
   radial_symmetry_pass |-> c.radial_symmetry_pass,
   tile_pass |-> c.tile_pass,
   location |-> c.location]

\* The fields of the stroke cache c whose name begins with true_.
TrueFields(c) ==
  [true_location |-> c.true_location,
   true_last_location |-> c.true_last_location,
   true_view_normal |-> c.true_view_normal,
   true_view_origin |-> c.true_view_origin,
   true_initial_location |-> c.true_initial_location,
   true_initial_normal |-> c.true_initial_normal,
   true_gravity_direction |-> c.true_gravity_direction]

\* SCULPT_cache_calc_brushdata_symm that ignores the mirror bits.
SCULPT_cache_calc_brushdata_symm_noflip(c, symm, axis, angle) ==
  LET q == IF axis = "0" THEN 0 ELSE QuarterTurns(angle)
  IN  [c EXCEPT !.location = rotate_v3(c.true_location, axis, q),
                !.last_location = c.true_last_location,
                !.view_normal = c.true_view_normal,
                !.view_origin = c.true_view_origin,
                !.initial_location = c.true_initial_location,
                !.initial_normal = c.true_initial_normal,
                !.plane_offset = zero_v3,
                !.gravity_direction =
                   IF c.supports_gravity
                     THEN rotate_v3(c.true_gravity_direction, axis, q)
                     ELSE @]

\* SCULPT_cache_calc_brushdata_symm that flips the true location where it lies.
SCULPT_cache_calc_brushdata_symm_inplace(c, symm, axis, angle) ==
  LET q == IF axis = "0" THEN 0 ELSE QuarterTurns(angle)
  IN  [c EXCEPT !.true_location = flip_v3_v3(c.true_location, symm),
                !.location = rotate_v3(flip_v3_v3(c.true_location, symm), axis, q),
                !.last_location = flip_v3_v3(c.true_last_location, symm),
                !.view_normal = flip_v3_v3(c.true_view_normal, symm),
                !.view_origin = flip_v3_v3(c.true_view_origin, symm),
                !.initial_location = flip_v3_v3(c.true_initial_location, symm),
                !.initial_normal = flip_v3_v3(c.true_initial_normal, symm),
                !.plane_offset = zero_v3,
                !.gravity_direction =
                   IF c.supports_gravity
                     THEN rotate_v3(flip_v3_v3(c.true_gravity_direction, symm), axis, q)
                     ELSE @]

\* SCULPT_cache_calc_brushdata_symm
SCULPT_cache_calc_brushdata_symm(c, symm, axis, angle) ==
  LET q == IF axis = "0" THEN 0 ELSE QuarterTurns(angle)
  IN  [c EXCEPT !.location = rotate_v3(flip_v3_v3(c.true_location, symm), axis, q),
                !.last_location = flip_v3_v3(c.true_last_location, symm),
                !.view_normal = flip_v3_v3(c.true_view_normal, symm),
                !.view_origin = flip_v3_v3(c.true_view_origin, symm),
                !.initial_location = flip_v3_v3(c.true_initial_location, symm),
                !.initial_normal = flip_v3_v3(c.true_initial_normal, symm),
                !.plane_offset = zero_v3,
                !.gravity_direction =
                   IF c.supports_gravity
                     THEN rotate_v3(flip_v3_v3(c.true_gravity_direction, symm), axis, q)
                     ELSE @]

(***************************************************************************)
(* The brush action of one symmetry instance. A PBVH node holds one        *)
(* vertex; rs is the running state of a stroke step: the stroke cache, the *)
(* mesh, the per-vertex original data, the proxies and the log.            *)
(***************************************************************************)

\* sculpt_pbvh_gather_generic with SCULPT_search_sphere_cb: the nodes whose
\* bounding box is nearer to the brush location than the radius.
sculpt_pbvh_gather_generic(rs) ==
  {n \in 1..NumVerts :
     len_squared_v3v3(rs.cache.location, rs.co[n]) < rs.cache.radius * rs.cache.radius}

\* The code is a sequence of statements on one session: the state a statement
\* leaves is computed once, and then the statements after it run on it.
\* Then(e, F) is F on the value of e.
Then(e, F(_)) == CHOOSE r \in {F(x) : x \in {e}} : TRUE

\* SCULPT_vertex_check_origdata: take the vertex's original data once per stroke.
SCULPT_vertex_check_origdata(rs0, n) ==
  Then(rs0, LAMBDA rs :
    IF rs.msv[n].stroke_id = rs.stroke_id THEN rs
    ELSE [rs EXCEPT !.msv[n] = [origco |-> rs.co[n], origmask |-> rs.vdata[n].mask,
                                 origcolor |-> rs.vdata[n].color,
                                 stroke_id |-> rs.stroke_id]])

\* What the tool routines do to one vertex under the brush: deforming tools
\* push a proxy, smooth moves the vertex itself, the others write their attribute.
ToolVertex(tool, rs0, n) ==
  Then(SCULPT_vertex_check_origdata(rs0, n), LAMBDA rs :
    CASE tool \in {"DRAW", "GRAB"} ->
           [rs EXCEPT !.proxies[n] = Append(@, <<0, 0, 1>>)]
      [] tool = "SMOOTH" ->
           [rs EXCEPT !.co[n] = <<@[1], @[2], TruncDiv(@[3], 2)>>]
      [] tool = "MASK" -> [rs EXCEPT !.vdata[n].mask = 1 - @]
      [] tool = "PAINT" -> [rs EXCEPT !.vdata[n].color = 1 - @]
      [] tool = "DRAW_FACE_SETS" -> [rs EXCEPT !.vdata[n].face_set = rs.cache.paint_face_set]
      [] OTHER -> rs)

\* A tool routine over the gathered nodes, from node n on.
RECURSIVE ToolRoutine(_, _, _, _)
ToolRoutine(tool, rs0, nodes, n) ==
  Then(rs0, LAMBDA rs :
    IF n > NumVerts THEN rs
    ELSE ToolRoutine(tool, IF n \in nodes THEN ToolVertex(tool, rs, n) ELSE rs, nodes, n + 1))

\* SCULPT_run_command, the switch on brush2->sculpt_tool (which is cmd->tool):
\* the tool routines that run for the tool, in order, each named by the tool
\* whose case calls it. A case without break runs on into the next one.
sculpt_tool_switch(tool) ==
  CASE tool \in {"DRAW", "SMOOTH", "GRAB", "MASK", "PAINT", "DRAW_FACE_SETS",
                 "VCOL_BOUNDARY", "DISPLACEMENT_HEAL"} -> <<tool>>
    [] tool = "ARRAY" -> <<"ARRAY", "VCOL_BOUNDARY">>
    [] tool = "ENHANCE_DETAILS" -> <<"ENHANCE_DETAILS", "DISPLACEMENT_HEAL">>
    [] OTHER -> <<>>

\* The tool routines of the switch run one after the other, from routine i on.
RECURSIVE RunRoutines(_, _, _, _)
RunRoutines(routines, rs0, nodes, i) ==
  Then(rs0, LAMBDA rs :
    IF i > Len(routines) THEN rs
    ELSE RunRoutines(routines, ToolRoutine(routines[i], rs, nodes, 1), nodes, i + 1))

\* SCULPT_face_set_next_available_get: one more than the largest face set.
SCULPT_face_set_next_available_get(vd) ==
  1 + CHOOSE m \in {vd[n].face_set : n \in 1..NumVerts} :
        \A n \in 1..NumVerts : vd[n].face_set <= m

\* do_brush_action_task_cb: the kinds of undo snapshot the task pushes for its
\* node with SCULPT_undo_push_node, for a stroke that is not in alt-smooth mode
\* and a brush without vcol_boundary_factor.
do_brush_action_task_cb(sdv, c) ==
  LET need_coords == {"COORDS"}
      gravity == IF c.supports_gravity THEN need_coords ELSE {}
  IN  CASE sdv.tool \in {"DRAW_FACE_SETS", "AUTO_FSET"} -> gravity
        [] sdv.tool = "ARRAY" -> gravity
        [] sdv.tool = "MASK" -> {"MASK"} \cup gravity
        [] sdv.tool \in {"PAINT", "SMEAR"} -> {"COLOR"} \cup gravity
        [] OTHER -> need_coords

\* get_nodes_undo: the undo pushes of one brush action on the gathered nodes,
\* each a node and a kind of snapshot. The dynamic mesh pushes outside the
\* task (SCULPT_ensure_dyntopo_node_undo), per command tool.
get_nodes_undo_push(sdv, c, tool, nodes) ==
  IF sdv.pbvh_type = "BMESH"
    THEN LET type == CASE tool \in {"PAINT", "SMEAR"} -> "COLOR"
                       [] tool \in {"DRAW_FACE_SETS", "AUTO_FSET"} -> "FACE_SETS"
                       [] OTHER -> "COORDS"
         IN  {[node |-> n, type |-> type] : n \in nodes}
    ELSE {[node |-> n, type |-> t] : n \in nodes, t \in do_brush_action_task_cb(sdv, c)}

\* SCULPT_run_command: the brush action of one symmetry instance for command cmd; it
\* starts with get_nodes_undo, which gathers the nodes and picks the face set to paint.
SCULPT_run_command(sdv, rs0, cmd) ==
  Then(rs0, LAMBDA rs :
    Then(sculpt_pbvh_gather_generic(rs), LAMBDA nodes :
      LET entry == [type |-> "action", step |-> cmd.step, tool |-> cmd.tool,
                    mirror_symmetry_pass |-> rs.cache.mirror_symmetry_pass,
                    radial_symmetry_pass |-> rs.cache.radial_symmetry_pass,
                    tile_pass |-> rs.cache.tile_pass,
                    location |-> rs.cache.location,
                    plane_offset |-> rs.cache.plane_offset,
                    first_brush_step |-> SCULPT_stroke_is_first_brush_step(rs.cache),
                    true_fields |-> TrueFields(rs.cache),
                    nodes |-> nodes,
                    routines |-> sculpt_tool_switch(cmd.tool),
                    undo_push |-> get_nodes_undo_push(sdv, rs.cache, cmd.tool, nodes)]
          rs1 == [rs EXCEPT
                    !.log = Append(@, entry),
                    !.cache.paint_face_set =
                       IF /\ cmd.tool = "DRAW_FACE_SETS"
                          /\ SCULPT_stroke_is_first_brush_step(rs.cache)
                         THEN SCULPT_face_set_next_available_get(rs.vdata)
                         ELSE @]
      IN  RunRoutines(sculpt_tool_switch(cmd.tool), rs1, nodes, 1)))

(***************************************************************************)
(* Symmetry expansion.                                                     *)
(***************************************************************************)

\* The object's bounding box.
BoundBox == [min |-> <<-1, -1, -1>>, max |-> <<1, 1, 1>>]

\* do_tiled: start and end of the tile range of one dimension.
TileRange(sdv, orgLoc, radius, dim) ==
  IF dim \in sdv.tile_flags /\ sdv.tile_offset[dim] > 0
    THEN [start |-> TruncDiv(BoundBox.min[dim] - orgLoc[dim] - radius, sdv.tile_offset[dim]),
          end |-> TruncDiv(BoundBox.max[dim] - orgLoc[dim] + radius, sdv.tile_offset[dim])]
    ELSE [start |-> 0, end |-> 0]

\* The tile set-up that leaves the tile pass as it is.
TileCache_samepass(sdv, c, cur, orgLoc, original_initial_location) ==
  LET off == <<cur[1] * sdv.tile_offset[1], cur[2] * sdv.tile_offset[2],
               cur[3] * sdv.tile_offset[3]>>
  IN  [c EXCEPT !.location = add_v3_v3(off, orgLoc),
                !.plane_offset = off,
                !.initial_location = add_v3_v3(off, original_initial_location)]

\* do_tiled: what the loop body sets in the cache for tile cur.
TileCache(sdv, c, cur, orgLoc, original_initial_location) ==
  LET off == <<cur[1] * sdv.tile_offset[1], cur[2] * sdv.tile_offset[2],
               cur[3] * sdv.tile_offset[3]>>
  IN  [c EXCEPT !.tile_pass = @ + 1,
                !.location = add_v3_v3(off, orgLoc),
                !.plane_offset = off,
                !.initial_location = add_v3_v3(off, original_initial_location)]

\* do_tiled: the tiles the three nested loops reach, in the order they reach
\* them (cur[2] runs fastest), from the start and end of each dimension.
TileOrder(range) ==
  LET n == [dim \in 1..3 |-> IF range[dim].end < range[dim].start THEN 0
                             ELSE range[dim].end - range[dim].start + 1]
  IN  [k \in 1..(n[1] * n[2] * n[3]) |->
         <<range[1].start + ((k - 1) \div (n[2] * n[3])),
           range[2].start + (((k - 1) \div n[3]) % n[2]),
           range[3].start + ((k - 1) % n[3])>>]

\* do_tiled: the tile loops over the lo-th to the hi-th tile they reach, in
\* order: the body on one tile, and for more tiles the first half of them and
\* then the second half on the state the first half leaves.
RECURSIVE TileLoop(_, _, _, _, _, _, _, _)
TileLoop(sdv, rs0, cmd, tiles, lo, hi, orgLoc, original_initial_location) ==
  IF lo > hi THEN rs0
  ELSE IF lo < hi
    THEN LET mid == (lo + hi) \div 2
         IN  Then(TileLoop(sdv, rs0, cmd, tiles, lo, mid, orgLoc,
                           original_initial_location), LAMBDA rs :
               TileLoop(sdv, rs, cmd, tiles, mid + 1, hi, orgLoc,
                        original_initial_location))
  ELSE
    Then(rs0, LAMBDA rs :
      IF tiles[lo] = zero_v3 THEN rs
      ELSE
        LET c == TileCache(sdv, rs.cache, tiles[lo], orgLoc, original_initial_location)
        IN  SCULPT_run_command(sdv, [rs EXCEPT !.cache = c], cmd))

\* do_tiled
do_tiled(sdv, rs0, cmd) ==
  Then(rs0, LAMBDA rs :
    Then(TileOrder([dim \in 1..3 |->
                      TileRange(sdv, rs.cache.location, rs.cache.radius, dim)]),
         LAMBDA tiles :
      TileLoop(sdv, SCULPT_run_command(sdv, [rs EXCEPT !.cache.tile_pass = 0], cmd), cmd,
               tiles, 1, Len(tiles), rs.cache.location, rs.cache.initial_location)))

RECURSIVE do_radial_symmetry(_, _, _, _, _, _)
RECURSIVE do_radial_symmetry_full_turn(_, _, _, _, _, _)

\* do_radial_symmetry whose loop also runs the pass of the full turn.
do_radial_symmetry_full_turn(sdv, rs0, cmd, symm, axis, i) ==
  Then(rs0, LAMBDA rs :
    LET n == sdv.radial_symm[CASE axis = "X" -> 1 [] axis = "Y" -> 2 [] OTHER -> 3]
    IN  IF i > n THEN rs
        ELSE
          LET c == SCULPT_cache_calc_brushdata_symm(
                     [rs.cache EXCEPT !.radial_symmetry_pass = i], symm, axis,
                     [i |-> i, n |-> n])
          IN  do_radial_symmetry_full_turn(sdv, do_tiled(sdv, [rs EXCEPT !.cache = c], cmd),
                                           cmd, symm, axis, i + 1))

\* do_radial_symmetry: the loop from i on.
do_radial_symmetry(sdv, rs0, cmd, symm, axis, i) ==
  Then(rs0, LAMBDA rs :
    LET n == sdv.radial_symm[CASE axis = "X" -> 1 [] axis = "Y" -> 2 [] OTHER -> 3]
    IN  IF i >= n THEN rs
        ELSE
          LET c == SCULPT_cache_calc_brushdata_symm(
                     [rs.cache EXCEPT !.radial_symmetry_pass = i], symm, axis,
                     [i |-> i, n |-> n])
          IN  do_radial_symmetry(sdv, do_tiled(sdv, [rs EXCEPT !.cache = c], cmd), cmd,
                                 symm, axis, i + 1))

\* do_symmetrical_brush_actions: the loop over the mirror passes lo to hi, in
\* order: the body on one pass, and for more passes the first half of them and
\* then the second half on the state the first half leaves.
RECURSIVE MirrorLoop(_, _, _, _, _)
MirrorLoop(sdv, rs0, cmd, lo, hi) ==
  IF lo > hi THEN rs0
  ELSE IF lo < hi
    THEN LET mid == (lo + hi) \div 2
         IN  Then(MirrorLoop(sdv, rs0, cmd, lo, mid), LAMBDA rs :
               MirrorLoop(sdv, rs, cmd, mid + 1, hi))
  ELSE
    Then(rs0, LAMBDA rs :
      IF ~SCULPT_is_symmetry_iteration_valid(lo, sdv.symm) THEN rs
      ELSE
        LET c == SCULPT_cache_calc_brushdata_symm(
                   [rs.cache EXCEPT !.mirror_symmetry_pass = lo, !.radial_symmetry_pass = 0],
                   lo, "0", NoAngle)
            t == do_tiled(sdv, [rs EXCEPT !.cache = c], cmd)
            x == do_radial_symmetry(sdv, t, cmd, lo, "X", 1)
            y == do_radial_symmetry(sdv, x, cmd, lo, "Y", 1)
        IN  do_radial_symmetry(sdv, y, cmd, lo, "Z", 1))

\* do_symmetrical_brush_actions
do_symmetrical_brush_actions(sdv, rs, cmd) ==
  MirrorLoop(sdv, [rs EXCEPT !.cache.symmetry = sdv.symm], cmd, 0, sdv.symm)

(***************************************************************************)
(* Proxy combination.                                                      *)
(***************************************************************************)

\* sculpt_tool_is_proxy_used: the tools whose strokes skip the combination.
sculpt_tool_is_proxy_used(sculpt_tool) ==
  sculpt_tool \in {"SMOOTH", "LAYER", "FAIRING", "SCENE_PROJECT", "POSE", "ARRAY", "TWIST",
                   "DISPLACEMENT_SMEAR", "BOUNDARY", "CLOTH", "PAINT", "SMEAR", "SYMMETRIZE",
                   "DRAW_FACE_SETS"}

Abs(x) == IF x < 0 THEN -x ELSE x

\* The clip that tests the combined value instead of the coordinate it replaces.
SCULPT_clip_val(sdv, c, vco, val) ==
  LET axis(i) == IF i \in sdv.lock THEN vco[i]
                 ELSE IF c # <<>> /\ i \in c[1].clip_flags
                         /\ Abs(val[i]) <= c[1].clip_tolerance[i]
                   THEN 0
                 ELSE val[i]
  IN  <<axis(1), axis(2), axis(3)>>

\* SCULPT_clip, with the unit clip_mirror_mtx of an object without mirror object:
\* c is ss->cache, <<>> while NULL.
SCULPT_clip(sdv, c, vco, val) ==
  LET axis(i) == IF i \in sdv.lock THEN vco[i]
                 ELSE IF c # <<>> /\ i \in c[1].clip_flags
                         /\ Abs(vco[i]) <= c[1].clip_tolerance[i]
                   THEN 0
                 ELSE val[i]
  IN  <<axis(1), axis(2), axis(3)>>

\* sculpt_flush_pbvhvert_deform, with unit deform_imats.
sculpt_flush_pbvhvert_deform(sdv, rs0, n) ==
  Then(rs0, LAMBDA rs :
    LET d == rs.deform
        newco == <<rs.co[n][1] - d.deform_cos[n][1] + d.orig_cos[n][1],
                   rs.co[n][2] - d.deform_cos[n][2] + d.orig_cos[n][2],
                   rs.co[n][3] - d.deform_cos[n][3] + d.orig_cos[n][3]>>
    IN  [rs EXCEPT !.deform.deform_cos[n] = rs.co[n],
                   !.deform.orig_cos[n] = newco,
                   !.deform.mvert[n] = IF sdv.shapekey_active THEN @ ELSE newco])

\* The sum of val and the proxies from p on.
RECURSIVE AddProxies(_, _, _)
AddProxies(val, prox, p) ==
  IF p > Len(prox) THEN val ELSE AddProxies(add_v3_v3(val, prox[p]), prox, p + 1)

\* sculpt_combine_proxies: the tools that combine onto the original coordinates.
use_proxies_orco(sculpt_tool) ==
  sculpt_tool \in {"GRAB", "ROTATE", "THUMB", "ELASTIC_DEFORM", "BOUNDARY", "POSE"}

\* sculpt_combine_proxies_task_cb: val, the combined position of the vertex of node n.
CombinedVal(rs, n, use_orco) ==
  AddProxies(IF use_orco THEN rs.msv[n].origco ELSE rs.co[n], rs.proxies[n], 1)

\* sculpt_combine_proxies_task_cb for node n.
sculpt_combine_proxies_task_cb(sdv, c, rs0, n, use_orco) ==
  Then(rs0, LAMBDA rs :
    LET val == CombinedVal(rs, n, use_orco)
        clipped == [rs EXCEPT !.co[n] = SCULPT_clip(sdv, c, rs.co[n], val)]
        flushed == IF sdv.deform_modifiers_active
                     THEN sculpt_flush_pbvhvert_deform(sdv, clipped, n)
                     ELSE clipped
    IN  [flushed EXCEPT !.proxies[n] = <<>>])

\* BKE_pbvh_gather_proxies: the nodes that hold a proxy.
BKE_pbvh_gather_proxies(rs) == {n \in 1..NumVerts : rs.proxies[n] # <<>>}

\* The combination task over the given nodes, from node n on.
RECURSIVE CombineNodes(_, _, _, _, _, _)
CombineNodes(sdv, c, rs0, nodes, use_orco, n) ==
  Then(rs0, LAMBDA rs :
    IF n > NumVerts THEN rs
    ELSE CombineNodes(sdv, c,
                      IF n \in nodes
                        THEN sculpt_combine_proxies_task_cb(sdv, c, rs, n, use_orco)
                        ELSE rs,
                      nodes, use_orco, n + 1))

\* The combination that runs its task on every node.
sculpt_combine_proxies_everynode(sdv, c, rs0) ==
  Then(rs0, LAMBDA rs :
    IF c = <<>> \/ (~c[1].supports_gravity /\ sculpt_tool_is_proxy_used(sdv.tool)) THEN rs
    ELSE CombineNodes(sdv, c, rs, 1..NumVerts,
                      use_proxies_orco(sdv.tool),
                      1))

\* sculpt_combine_proxies
sculpt_combine_proxies(sdv, c, rs0) ==
  Then(rs0, LAMBDA rs :
    IF c = <<>> \/ (~c[1].supports_gravity /\ sculpt_tool_is_proxy_used(sdv.tool)) THEN rs
    ELSE CombineNodes(sdv, c, rs, BKE_pbvh_gather_proxies(rs),
                      use_proxies_orco(sdv.tool),
                      1))

\* The settings, brush and object state the stroke code reads, with the backend.
Settings ==
  [k \in DOMAIN sd \cup {"pbvh_type"} |-> IF k = "pbvh_type" THEN pbvh_type ELSE sd[k]]

\* The running state the operators above work on; c is the StrokeCache.
RunState(c) ==
  [cache |-> c, co |-> co, vdata |-> vdata, msv |-> msculptvert, proxies |-> proxies,
   deform |-> deform, log |-> <<>>, stroke_id |-> stroke.stroke_id]

\* The mesh of the stroke specifications: vertex n at x = n - 2 on the X axis,
\* unmasked, uncoloured, in face set 1, without proxies.
InitialCo == [n \in 1..NumVerts |-> <<n - 2, 0, 0>>]
InitialMesh ==
  /\ co = InitialCo
  /\ vdata = [n \in 1..NumVerts |-> [mask |-> 0, color |-> 0, face_set |-> 1]]
  /\ proxies = [n \in 1..NumVerts |-> <<>>]
  /\ deform = [deform_cos |-> InitialCo, orig_cos |-> InitialCo, mvert |-> InitialCo]

MaxPushes == 2

CombineInit ==
  /\ pin = [fn |-> "none"]
  /\ pout = NoResult
  /\ pbvh_type \in {"FACES"}
  /\ medge = <<>>
  /\ hidden = {}
  /\ fset_hidden = {}
  /\ fmesh = <<>>
  /\ bm = <<>>
  /\ tasks = <<>>
  /\ use_fake_neighbors = FALSE
  /\ fake_neighbor_index = <<>>
  /\ flood = [phase |-> "none"]
  /\ flood_calls = <<>>
  /\ connected_component = <<>>
  /\ current_max_distance = 0
  /\ fake_pc = [i |-> PBVH_REF_NONE]
  /\ topology_edits = 0
  /\ InitialMesh
  /\ msculptvert = [n \in 1..NumVerts |->
                      [origco |-> InitialCo[n], origmask |-> 0, origcolor |-> 0,
                       stroke_id |-> 0]]
  /\ \E tool \in {"DRAW", "GRAB", "SMOOTH"},
        dm \in {<<FALSE, FALSE>>, <<TRUE, FALSE>>, <<TRUE, TRUE>>} :
       sd = [tool |-> tool, deform_modifiers_active |-> dm[1], shapekey_active |-> dm[2],
             lock |-> {}]
  /\ cache \in {<<>>}
       \cup {<<[supports_gravity |-> g, clip_flags |-> cf, clip_tolerance |-> <<0, 0, tol>>]>> :
               g \in BOOLEAN, cf \in {{}, {3}}, tol \in {0, 1}}
  /\ stroke = [phase |-> "none", stroke_id |-> 1]
  /\ log = <<>>
  /\ pre_stroke = <<>>

\* A tool pushes a proxy on node n (BKE_pbvh_node_add_proxy and the
\* displacement the tool writes into it), after taking the original data.
Tool_push_proxy ==
  \E n \in 1..NumVerts, disp \in {<<0, 0, 1>>, <<0, 0, -1>>} :
    /\ topology_edits < MaxPushes
    /\ topology_edits' = topology_edits + 1
    /\ LET rs == SCULPT_vertex_check_origdata(RunState(cache), n)
       IN  /\ msculptvert' = rs.msv
           /\ proxies' = [proxies EXCEPT ![n] = Append(@, disp)]
    /\ pin' = [fn |-> "push_proxy"]
    /\ UNCHANGED <<pout, meshVars, fakeVars, floodVars, co, connected_component,
                   current_max_distance, fake_pc, sd, cache, stroke, log, vdata, deform,
                   pre_stroke>>

\* A tool that works without proxies moves vertex n itself.
Tool_move_vertex ==
  \E n \in 1..NumVerts :
    /\ topology_edits < MaxPushes
    /\ topology_edits' = topology_edits + 1
    /\ LET rs == SCULPT_vertex_check_origdata(RunState(cache), n)
       IN  /\ msculptvert' = rs.msv
           /\ co' = [co EXCEPT ![n] = add_v3_v3(@, <<0, 0, 1>>)]
    /\ pin' = [fn |-> "move_vertex"]
    /\ UNCHANGED <<pout, meshVars, fakeVars, floodVars, connected_component,
                   current_max_distance, fake_pc, sd, cache, stroke, log, vdata, proxies,
                   deform, pre_stroke>>

\* A call of sculpt_combine_proxies; pin keeps the nodes that held a proxy.
Combine_proxies ==
  LET before == RunState(cache)
      rs == sculpt_combine_proxies(Settings, cache, before)
  IN  /\ pin' = [fn |-> "combine_proxies", nodes |-> BKE_pbvh_gather_proxies(before),
                  co |-> co,
                  val |-> [n \in 1..NumVerts |->
                             CombinedVal(before, n, use_proxies_orco(sd.tool))]]
      /\ co' = rs.co
      /\ proxies' = rs.proxies
      /\ deform' = rs.deform
      /\ UNCHANGED <<pout, meshVars, fakeVars, floodVars, connected_component,
                     current_max_distance, fake_pc, mvVars, sd, cache, stroke, log, vdata,
                     pre_stroke>>

CombineNext ==
  \/ Tool_push_proxy
  \/ Tool_move_vertex
  \/ Combine_proxies

SpecCombine == CombineInit /\ [][CombineNext]_vars

\* C6: a call of sculpt_combine_proxies leaves the position of every vertex of a
\* node without proxy as it was, and with deform modifiers inactive it leaves
\* the pre-deformation and shape-key coordinates as they were.
C6_NoProxyNoChange ==
  [][pin'.fn = "combine_proxies" =>
       /\ \A n \in 1..NumVerts : proxies[n] = <<>> => co'[n] = co[n]
       /\ ~sd.deform_modifiers_active => deform' = deform]_vars

\* A combination with original coordinates that moved one node and passed over
\* a node without proxy whose vertex is away from its original position.
C6_Witness ==
  /\ pin.fn = "combine_proxies"
  /\ pin.nodes # {}
  /\ cache # <<>>
  /\ sd.tool = "GRAB"
  /\ \E n \in 1..NumVerts : n \notin pin.nodes /\ co[n] # msculptvert[n].origco

(***************************************************************************)
(* The stroke operator: start, update steps, end and cancel.               *)
(***************************************************************************)

\* SCULPT_TOOL_HAS_DYNTOPO: the tools that run with dynamic topology.
SCULPT_TOOL_HAS_DYNTOPO(t) ==
  t \notin {"GRAB", "ROTATE", "THUMB", "LAYER", "ELASTIC_DEFORM", "BOUNDARY", "POSE",
            "DRAW_FACE_SETS", "PAINT", "SMEAR", "SMOOTH", "MASK"}

\* SCULPT_stroke_is_dynamic_topology
SCULPT_stroke_is_dynamic_topology(sdv) ==
  sdv.pbvh_type = "BMESH" /\ sdv.dyntopo /\ SCULPT_TOOL_HAS_DYNTOPO(sdv.tool)

\* paint_mesh_restore_co_task_cb for node n.
paint_mesh_restore_co_task_cb(sdv, rs0, n) ==
  Then(SCULPT_vertex_check_origdata(rs0, n), LAMBDA rs :
    LET type == CASE sdv.tool = "MASK" -> {"MASK"}
                  [] sdv.tool \in {"PAINT", "SMEAR"} -> {"COLOR"}
                  [] sdv.tool = "VCOL_BOUNDARY" -> {"COLOR", "COORDS"}
                  [] OTHER -> {"COORDS"}
    IN  [rs EXCEPT !.co[n] = IF "COORDS" \in type THEN rs.msv[n].origco ELSE @,
                   !.vdata[n].mask = IF "MASK" \in type THEN rs.msv[n].origmask ELSE @,
                   !.vdata[n].color = IF "COLOR" \in type THEN rs.msv[n].origcolor ELSE @])

\* paint_mesh_restore_co: the task over all nodes, from node n on.
RECURSIVE paint_mesh_restore_co(_, _, _)
paint_mesh_restore_co(sdv, rs, n) ==
  IF n > NumVerts THEN rs
  ELSE paint_mesh_restore_co(sdv, paint_mesh_restore_co_task_cb(sdv, rs, n), n + 1)

\* The command-loop body of SCULPT_run_commandlist without the combination.
RunSubCommand_nocombine(sdv, rs, cmd) == do_symmetrical_brush_actions(sdv, rs, cmd)

\* SCULPT_run_commandlist: the body of the command loop for a command that runs.
RunSubCommand(sdv, rs, cmd) ==
  Then(do_symmetrical_brush_actions(sdv, rs, cmd), LAMBDA a :
    Then(sculpt_combine_proxies(sdv, <<a.cache>>, a), LAMBDA b :
      [b EXCEPT !.log = Append(@, [type |-> "combine", step |-> cmd.step,
                                   entered |-> PassFields(rs.cache),
                                   returned |-> PassFields(a.cache),
                                   true_entered |-> TrueFields(rs.cache),
                                   true_returned |-> TrueFields(a.cache)])]))

\* SCULPT_run_commandlist: the command loop from command step on; noskip[step]
\* is what paint_stroke_apply_subspacing answers for the command, and
\* last_spacing_t[step] holds the indices of the command's spacing records
\* that paint_stroke_apply_subspacing has been handed.
RECURSIVE CommandLoop(_, _, _, _, _)
CommandLoop(sdv, rs0, has_dyntopo, noskip, step) ==
  Then(rs0, LAMBDA rs :
    IF step > Len(rs.cache.commandlist) THEN rs
    ELSE
      LET cmd == [tool |-> rs.cache.commandlist[step], step |-> step]
          gated == [rs EXCEPT !.cache.last_spacing_t[step] =
                                 @ \cup {SCULPT_get_symmetry_pass(rs.cache)}]
      IN  IF cmd.tool = "DYNTOPO" /\ ~has_dyntopo
            THEN CommandLoop(sdv, rs, has_dyntopo, noskip, step + 1)
          ELSE IF ~noskip[step]
            THEN CommandLoop(sdv, gated, has_dyntopo, noskip, step + 1)
          ELSE CommandLoop(sdv, RunSubCommand(sdv, gated, cmd), has_dyntopo, noskip,
                           step + 1))

\* SCULPT_run_commandlist; cache.cloth_sim_steps counts the calls of
\* SCULPT_cloth_brush_do_simulation_step on cache->cloth_sim.
SCULPT_run_commandlist(sdv, rs0, noskip) ==
  Then(rs0, LAMBDA rs :
    LET has_dyntopo ==
          /\ sdv.pbvh_type = "BMESH"
          /\ SCULPT_stroke_is_dynamic_topology(sdv)
          /\ \A k \in 1..Len(rs.cache.commandlist) :
               SCULPT_TOOL_HAS_DYNTOPO(rs.cache.commandlist[k])
    IN  IF sdv.tool \in {"PAINT", "SMEAR"} /\ sdv.pbvh_type \notin {"BMESH", "FACES"} THEN rs
        ELSE IF sdv.tool = "ARRAY" /\ sdv.pbvh_type \notin {"FACES", "BMESH"} THEN rs
        ELSE
          Then(CommandLoop(sdv, rs, has_dyntopo, noskip, 1), LAMBDA ran :
            IF /\ sdv.deform_target = "BRUSH_DEFORM_TARGET_CLOTH_SIM"
               /\ SCULPT_stroke_is_main_symmetry_pass(ran.cache)
              THEN [ran EXCEPT !.cache.cloth_sim_steps = @ + 1]
              ELSE ran))

\* sculpt_update_cache_invariants: the brush's mask_tool it leaves (alt-smooth).
sculpt_update_cache_invariants_brush(sdv, mode) ==
  IF mode = "BRUSH_STROKE_SMOOTH" /\ sdv.tool = "MASK" THEN "BRUSH_MASK_SMOOTH"
  ELSE sdv.mask_tool

\* sculpt_update_cache_invariants: the calloc'ed cache after the stroke start.
sculpt_update_cache_invariants(sdv, cursor_location, mode) ==
  [first_time |-> TRUE,
   cloth_sim_steps |-> 0,
   alt_smooth |-> mode = "BRUSH_STROKE_SMOOTH",
   saved_mask_brush_tool |->
     IF mode = "BRUSH_STROKE_SMOOTH" /\ sdv.tool = "MASK" THEN sdv.mask_tool
     ELSE "BRUSH_MASK_DRAW",
   mirror_symmetry_pass |-> 0, radial_symmetry_pass |-> 0, tile_pass |-> 0,
   symmetry |-> 0,
   location |-> zero_v3, true_location |-> zero_v3,
   last_location |-> zero_v3, true_last_location |-> zero_v3,
   view_normal |-> zero_v3, true_view_normal |-> <<0, 0, 1>>,
   view_origin |-> zero_v3, true_view_origin |-> <<0, 0, 2>>,
   initial_location |-> zero_v3, true_initial_location |-> cursor_location,
   initial_normal |-> zero_v3, true_initial_normal |-> <<0, 0, 1>>,
   gravity_direction |-> zero_v3,
   true_gravity_direction |->
     IF sdv.tool \notin {"MASK", "SMOOTH", "SIMPLIFY", "DISPLACEMENT_SMEAR",
                         "DISPLACEMENT_ERASER"} /\ sdv.gravity
       THEN <<0, 0, 1>> ELSE zero_v3,
   plane_offset |-> zero_v3,
   radius |-> sdv.radius,
   paint_face_set |-> 0,
   commandlist |-> <<>>, last_spacing_t |-> <<>>,
   supports_gravity |-> sdv.tool \notin {"MASK", "SMOOTH", "SIMPLIFY", "DISPLACEMENT_SMEAR",
                                         "DISPLACEMENT_ERASER"} /\ sdv.gravity,
   clip_flags |-> {}, clip_tolerance |-> <<0, 0, 0>>]

\* sculpt_stroke_update_step for a brush that is neither anchored nor drag-dot:
\* sculpt_update_cache_variants, the command list of the first brush step,
\* SCULPT_run_commandlist, and the end of the first step.
sculpt_stroke_update_step(sdv, rs, location, noskip) ==
  LET c == rs.cache
      variants == IF c.first_time \/ sdv.tool \notin {"SNAKE_HOOK", "ROTATE"}
                    THEN [c EXCEPT !.true_location = location]
                    ELSE c
      listed == IF SCULPT_stroke_is_first_brush_step(variants)
                  THEN [variants EXCEPT !.commandlist = sdv.commands,
                                        !.last_spacing_t =
                                           [k \in 1..Len(sdv.commands) |-> {}]]
                  ELSE variants
  IN  Then(SCULPT_run_commandlist(sdv, [rs EXCEPT !.cache = listed], noskip), LAMBDA ran :
        [ran EXCEPT !.cache.first_time = FALSE,
                    !.cache.true_last_location = ran.cache.true_location])

\* sculpt_stroke_done: the stroke cache it leaves (SCULPT_cache_free, then NULL).
sculpt_stroke_done_keepcache(c) == c

\* sculpt_stroke_done: the stroke cache it leaves (SCULPT_cache_free, then NULL).
sculpt_stroke_done(c) == IF c = <<>> THEN c ELSE <<>>

\* sculpt_stroke_done that leaves the brush as the stroke set it.
sculpt_stroke_done_brush_kept(sdv, c) == sdv.mask_tool

\* sculpt_stroke_done: the brush's mask_tool it leaves (alt-smooth).
sculpt_stroke_done_brush(sdv, c) ==
  IF c = <<>> THEN sdv.mask_tool
  ELSE IF c[1].alt_smooth /\ sdv.tool = "MASK" THEN c[1].saved_mask_brush_tool
  ELSE sdv.mask_tool

\* SCULPT_cache_free(ss, ob, cache): st counts the calls made on the cache of
\* the stroke and the calls made on no cache.
SCULPT_cache_free(st, c) ==
  IF c # <<>> THEN [st EXCEPT !.cache_frees = @ + 1]
  ELSE [st EXCEPT !.null_frees = @ + 1]

\* sculpt_stroke_done: its call of SCULPT_cache_free.
sculpt_stroke_done_free(st, c) == IF c = <<>> THEN st ELSE SCULPT_cache_free(st, c)

\* sculpt_brush_stroke_cancel that frees without the test of ss->cache.
sculpt_brush_stroke_cancel_free_untested(st, c) == SCULPT_cache_free(st, c)

\* sculpt_brush_stroke_cancel: its call of SCULPT_cache_free, after
\* paint_stroke_cancel has left the cache c.
sculpt_brush_stroke_cancel_free(st, c) == IF c # <<>> THEN SCULPT_cache_free(st, c) ELSE st

MaxSteps == 2
MaxStrokes == 1

\* Where the samples of a stroke lie on the mesh.
StrokeSamples == {<<1, 0, 0>>, <<0, 1, 0>>}

\* The settings of a sculpt session: brush tool, its command list, mirror
\* axes, radial counts, tiling, dynamic topology.
BrushSettings(tool, commands, symm, radial_symm, tile, dyntopo) ==
  [tool |-> tool, commands |-> commands, symm |-> symm, radial_symm |-> radial_symm,
   tile_flags |-> tile.flags, tile_offset |-> tile.offset, dyntopo |-> dyntopo,
   gravity |-> FALSE, radius |-> 2, deform_modifiers_active |-> FALSE,
   shapekey_active |-> FALSE, lock |-> {}, mask_tool |-> "BRUSH_MASK_DRAW",
   deform_target |-> "BRUSH_DEFORM_TARGET_GEOMETRY"]

NoTiling == [flags |-> {}, offset |-> zero_v3]
TileSettings == {[flags |-> {1}, offset |-> <<3, 0, 0>>], [flags |-> {1, 2}, offset |-> <<3, 3, 0>>]}

\* The symmetry settings under which the cloth deform target is explored.
ClothConfigs ==
  {[symm |-> 0, radial_symm |-> <<1, 1, 1>>, tile |-> NoTiling],
   [symm |-> 1, radial_symm |-> <<1, 1, 1>>, tile |-> NoTiling],
   [symm |-> 0, radial_symm |-> <<2, 1, 1>>, tile |-> NoTiling],
   [symm |-> 0, radial_symm |-> <<1, 1, 1>>, tile |-> [flags |-> {1}, offset |-> <<3, 0, 0>>]]}

\* The sessions explored: the draw brush under every set of mirror axes, under
\* radial symmetry, and under tiling; and every tool on every backend with no
\* or X mirror symmetry; radial symmetry about two axes at once; and the
\* cloth simulation as the deform target.
StrokeConfigs ==
  {[sd |-> BrushSettings("DRAW", commands, symm, <<1, 1, 1>>, NoTiling, FALSE),
    pbvh_type |-> "FACES"] :
     commands \in {<<"DRAW">>, <<"DRAW", "SMOOTH">>}, symm \in 0..7}
  \cup
  {[sd |-> BrushSettings("DRAW", <<"DRAW">>, symm, radial, tile, FALSE),
    pbvh_type |-> "FACES"] :
     symm \in {0, 1, 6}, radial \in {<<1, 1, 1>>, <<2, 1, 1>>, <<1, 4, 1>>},
     tile \in {NoTiling} \cup TileSettings}
  \cup
  {[sd |-> BrushSettings(tool, <<tool>>, symm, <<1, 1, 1>>, NoTiling, type[2]),
    pbvh_type |-> type[1]] :
     tool \in {"DRAW", "GRAB", "SMOOTH", "MASK", "PAINT", "DRAW_FACE_SETS"},
     symm \in {0, 1},
     type \in {<<"FACES", FALSE>>, <<"GRIDS", FALSE>>, <<"BMESH", FALSE>>, <<"BMESH", TRUE>>}}
  \cup
  {[sd |-> [BrushSettings(tool, <<tool>>, symm, <<2, 1, 1>>, NoTiling, FALSE)
              EXCEPT !.gravity = TRUE],
    pbvh_type |-> "FACES"] :
     tool \in {"DRAW", "SMOOTH"}, symm \in {1, 7}}
  \cup
  {[sd |-> BrushSettings(tool, <<tool>>, 0, <<1, 1, 1>>, NoTiling, FALSE),
    pbvh_type |-> "FACES"] :
     tool \in {"ARRAY", "VCOL_BOUNDARY", "ENHANCE_DETAILS", "DISPLACEMENT_HEAL"}}
  \cup
  {[sd |-> BrushSettings("SMOOTH", <<"SMOOTH", "DRAW">>, 0, <<1, 1, 1>>, NoTiling, FALSE),
    pbvh_type |-> "FACES"]}
  \cup
  {[sd |-> BrushSettings("DRAW", <<"DRAW">>, 1, <<2, 4, 1>>, NoTiling, FALSE),
    pbvh_type |-> "FACES"]}
  \cup
  {[sd |-> [BrushSettings("DRAW", <<"DRAW">>, c.symm, c.radial_symm, c.tile, FALSE)
              EXCEPT !.deform_target = "BRUSH_DEFORM_TARGET_CLOTH_SIM"],
    pbvh_type |-> "FACES"] : c \in ClothConfigs}

StrokeInit ==
  /\ pin = [fn |-> "none"]
  /\ pout = NoResult
  /\ \E cfg \in StrokeConfigs : sd = cfg.sd /\ pbvh_type = cfg.pbvh_type
  /\ medge = <<>>
  /\ hidden = {}
  /\ fset_hidden = {}
  /\ fmesh = <<>>
  /\ bm = <<>>
  /\ tasks = <<>>
  /\ use_fake_neighbors = FALSE
  /\ fake_neighbor_index = <<>>
  /\ flood = [phase |-> "none"]
  /\ flood_calls = <<>>
  /\ connected_component = <<>>
  /\ current_max_distance = 0
  /\ fake_pc = [i |-> PBVH_REF_NONE]
  /\ topology_edits = 0
  /\ InitialMesh
  /\ msculptvert = [n \in 1..NumVerts |->
                      [origco |-> add_v3_v3(InitialCo[n], <<0, 0, -1>>), origmask |-> 1,
                       origcolor |-> 1, stroke_id |-> 0]]
  /\ cache = <<>>
  /\ stroke = [phase |-> "none", started |-> FALSE, steps |-> 0, stroke_id |-> 0,
               cache_frees |-> 0, null_frees |-> 0]
  /\ log = <<>>
  /\ pre_stroke = <<>>

\* sculpt_brush_stroke_invoke: a new PaintStroke, the operator goes modal.
Brush_stroke_invoke ==
  /\ stroke.phase = "none"
  /\ stroke.stroke_id < MaxStrokes
  /\ stroke' = [stroke EXCEPT !.phase = "modal", !.started = FALSE, !.steps = 0]
  /\ pin' = [fn |-> "stroke_invoke"]
  /\ pout' = NoResult
  /\ log' = <<>>
  /\ UNCHANGED <<meshVars, fakeVars, floodVars, ccVars, mvVars, sd, cache, vdata, proxies,
                 deform, pre_stroke>>

\* The stroke modes of the operator; the smooth mode is explored for the mask
\* tool, the tool whose brush it changes.
StrokeModes(tool) ==
  IF tool = "MASK" THEN {"BRUSH_STROKE_NORMAL", "BRUSH_STROKE_SMOOTH"}
  ELSE {"BRUSH_STROKE_NORMAL"}

\* sculpt_stroke_test_start, called for each sample until it returns true.
Stroke_test_start ==
  \E over_mesh \in BOOLEAN, mval \in StrokeSamples, mode \in StrokeModes(sd.tool) :
    /\ stroke.phase = "modal"
    /\ ~stroke.started
    /\ pin' = [fn |-> "stroke_test_start"]
    /\ pout' = <<over_mesh>>
    /\ IF over_mesh
         THEN /\ stroke' = [stroke EXCEPT !.stroke_id = @ + 1, !.started = TRUE,
                                          !.cache_frees = 0]
              /\ cache' = <<sculpt_update_cache_invariants(Settings, mval, mode)>>
              /\ sd' = [sd EXCEPT !.mask_tool =
                                    sculpt_update_cache_invariants_brush(Settings, mode)]
              /\ pre_stroke' = [co |-> co, vdata |-> vdata, mask_tool |-> sd.mask_tool,
                                mode |-> mode]
         ELSE UNCHANGED <<stroke, cache, sd, pre_stroke>>
    /\ UNCHANGED <<meshVars, fakeVars, floodVars, ccVars, mvVars, log, vdata, proxies,
                   deform>>

\* sculpt_stroke_update_step, called for each sample of a started stroke.
Stroke_update_step ==
  \E location \in StrokeSamples, noskip \in [1..Len(sd.commands) -> BOOLEAN] :
    /\ stroke.phase = "modal"
    /\ stroke.started
    /\ stroke.steps < MaxSteps
    /\ \E rs \in {sculpt_stroke_update_step(Settings, RunState(cache[1]), location, noskip)} :
           /\ cache' = <<rs.cache>>
           /\ co' = rs.co
           /\ vdata' = rs.vdata
           /\ msculptvert' = rs.msv
           /\ proxies' = rs.proxies
           /\ deform' = rs.deform
           /\ log' = rs.log
    /\ stroke' = [stroke EXCEPT !.steps = @ + 1]
    /\ pin' = [fn |-> "stroke_update_step", noskip |-> noskip]
    /\ pout' = NoResult
    /\ UNCHANGED <<meshVars, fakeVars, floodVars, connected_component, current_max_distance,
                   fake_pc, topology_edits, sd, pre_stroke>>

\* The end of the stroke: the paint stroke calls sculpt_stroke_done when the
\* stroke had started, and the operator finishes.
Stroke_done ==
  /\ stroke.phase = "modal"
  /\ cache' = IF stroke.started THEN sculpt_stroke_done(cache) ELSE cache
  /\ stroke' = [(IF stroke.started THEN sculpt_stroke_done_free(stroke, cache) ELSE stroke)
                 EXCEPT !.phase = "none", !.started = FALSE]
  /\ sd' = [sd EXCEPT !.mask_tool = IF stroke.started
                                       THEN sculpt_stroke_done_brush(Settings, cache)
                                       ELSE @]
  /\ pin' = [fn |-> "stroke_done"]
  /\ pout' = NoResult
  /\ UNCHANGED <<meshVars, fakeVars, floodVars, ccVars, mvVars, log, vdata, proxies,
                 deform, pre_stroke>>

\* sculpt_brush_stroke_cancel: the restore, paint_stroke_cancel (which ends a
\* started stroke through sculpt_stroke_done), and the free of a cache still there.
Brush_stroke_cancel ==
  /\ stroke.phase = "modal"
  /\ \E restored \in {IF cache # <<>> /\ ~SCULPT_stroke_is_dynamic_topology(Settings)
                         THEN paint_mesh_restore_co(Settings, RunState(cache), 1)
                         ELSE RunState(cache)},
        cancelled \in {IF stroke.started THEN sculpt_stroke_done(cache) ELSE cache} :
         /\ co' = restored.co
         /\ vdata' = restored.vdata
         /\ msculptvert' = restored.msv
         /\ cache' = IF cancelled # <<>> THEN <<>> ELSE cancelled
         /\ stroke' = [sculpt_brush_stroke_cancel_free(
                         IF stroke.started THEN sculpt_stroke_done_free(stroke, cache)
                         ELSE stroke,
                         cancelled)
                         EXCEPT !.phase = "none", !.started = FALSE]
  /\ sd' = [sd EXCEPT !.mask_tool = IF stroke.started
                                       THEN sculpt_stroke_done_brush(Settings, cache)
                                       ELSE @]
  /\ pin' = [fn |-> "stroke_cancel"]
  /\ pout' = NoResult
  /\ UNCHANGED <<meshVars, fakeVars, floodVars, connected_component, current_max_distance,
                 fake_pc, topology_edits, log, proxies, deform, pre_stroke>>

StrokeNext ==
  \/ Brush_stroke_invoke
  \/ Stroke_test_start
  \/ Stroke_update_step
  \/ Stroke_done
  \/ Brush_stroke_cancel

SpecStroke == StrokeInit /\ [][StrokeNext]_vars

(***************************************************************************)
(* The claims about strokes.                                               *)
(***************************************************************************)

\* The brush actions the last update step logged for the command at place k.
ActionsOf(k) == SelectSeq(log, LAMBDA e : e.type = "action" /\ e.step = k)

\* C8: test_start creates the one stroke cache, every update step of the
\* stroke runs with it, and once the stroke is done or cancelled there is no
\* cache: the cache is there exactly while a started stroke is under way.
C8_CacheLifecycle ==
  /\ (stroke.phase = "modal" /\ stroke.started) => cache # <<>>
  /\ ~(stroke.phase = "modal" /\ stroke.started) => cache = <<>>
C8_Witness ==
  /\ pin.fn = "stroke_done"
  /\ stroke.steps >= 1
  /\ stroke.stroke_id >= 1
  /\ cache = <<>>

\* The command at place k of the list ran in the last update step: its spacing
\* test passed, and neither the early returns nor the dynamic-topology skip of
\* SCULPT_run_commandlist applied.
Executed(k) ==
  /\ pin.noskip[k]
  /\ ~(sd.tool \in {"PAINT", "SMEAR"} /\ pbvh_type \notin {"BMESH", "FACES"})
  /\ sd.commands[k] # "DYNTOPO"

\* C2: with X mirror symmetry only (symm = 1), no radial symmetry and no
\* tiling, a sub-command that runs in an update step invokes the brush action
\* exactly twice: first in mirror pass 0 at the unmirrored location, then in
\* mirror pass 1 at the location mirrored across X.
C2_MirrorXTwoActions ==
  (/\ pin.fn = "stroke_update_step"
   /\ sd.symm = 1
   /\ sd.radial_symm = <<1, 1, 1>>
   /\ sd.tile_flags = {})
  => \A k \in 1..Len(sd.commands) :
       Executed(k) =>
         LET a == ActionsOf(k)
             tl == cache[1].true_location
         IN  /\ Len(a) = 2
             /\ a[1].mirror_symmetry_pass = 0
             /\ a[1].location = tl
             /\ a[2].mirror_symmetry_pass = 1
             /\ a[2].location = <<-tl[1], tl[2], tl[3]>>
C2_Witness ==
  /\ pin.fn = "stroke_update_step"
  /\ sd.symm = 1
  /\ sd.radial_symm = <<1, 1, 1>>
  /\ sd.tile_flags = {}
  /\ Executed(1)
  /\ cache[1].true_location[1] # 0
  /\ Len(ActionsOf(1)) = 2

\* C10: in every symmetry expansion the first invocation of the brush action
\* is the main instance (mirror pass 0, radial pass 0, tile pass 0, zero tile
\* offset), and no later invocation of the expansion is a main symmetry pass.
C10_MainInstanceFirst ==
  pin.fn = "stroke_update_step"
  => \A k \in 1..Len(sd.commands) :
       Executed(k) =>
         LET a == ActionsOf(k)
         IN  /\ Len(a) >= 1
             /\ SCULPT_stroke_is_main_symmetry_pass(a[1])
             /\ a[1].plane_offset = zero_v3
             /\ \A j \in 2..Len(a) : ~SCULPT_stroke_is_main_symmetry_pass(a[j])
C10_Witness ==
  /\ pin.fn = "stroke_update_step"
  /\ Executed(1)
  /\ \E j \in 2..Len(ActionsOf(1)) :
       LET e == ActionsOf(1)[j]
       IN  e.mirror_symmetry_pass = 0 /\ e.radial_symmetry_pass = 0 /\ e.tile_pass >= 1
  /\ \E j \in 2..Len(ActionsOf(1)) :
       LET e == ActionsOf(1)[j]
       IN  e.mirror_symmetry_pass = 0 /\ e.radial_symmetry_pass >= 1 /\ e.tile_pass = 0
  /\ \E j \in 2..Len(ActionsOf(1)) :
       LET e == ActionsOf(1)[j]
       IN  e.mirror_symmetry_pass >= 1 /\ e.radial_symmetry_pass = 0 /\ e.tile_pass = 0

C7_CancelRestoresMesh ==
  (pin.fn = "stroke_cancel" /\ stroke.steps >= 1)
  => co = pre_stroke.co /\ vdata = pre_stroke.vdata

\* C11 as stated: when the symmetry expansion of a sub-command returns, the
\* mirror, radial and tile pass of the stroke cache are what they were when the
\* expansion started, and the working location is that of the main pass.
C11_PassFieldsRestored ==
  pin.fn = "stroke_update_step"
  => \A j \in 1..Len(log) :
       log[j].type = "combine" =>
         /\ log[j].returned.mirror_symmetry_pass = log[j].entered.mirror_symmetry_pass
         /\ log[j].returned.radial_symmetry_pass = log[j].entered.radial_symmetry_pass
         /\ log[j].returned.tile_pass = log[j].entered.tile_pass
         /\ log[j].returned.location = ActionsOf(log[j].step)[1].location

\* C12: during the mirror, radial and tile expansion of a sub-command no field
\* of the stroke cache whose name begins with true_ changes: every brush
\* action of the expansion sees the true_ fields the expansion started with,
\* and they are the same when it returns.
C12_TrueFieldsKept ==
  pin.fn = "stroke_update_step"
  => \A j \in 1..Len(log) :
       log[j].type = "combine" =>
         /\ log[j].true_returned = log[j].true_entered
         /\ \A i \in 1..Len(log) :
              (log[i].type = "action" /\ log[i].step = log[j].step)
                => log[i].true_fields = log[j].true_entered
C12_Witness ==
  /\ pin.fn = "stroke_update_step"
  /\ cache[1].supports_gravity
  /\ \E i \in 1..Len(log) :
       /\ log[i].type = "action"
       /\ log[i].mirror_symmetry_pass = 7
       /\ log[i].radial_symmetry_pass = 1
       /\ log[i].location # log[i].true_fields.true_location
       /\ cache[1].gravity_direction # zero_v3

\* C13: the spacing gating of a sub-command keeps one record per symmetry pass,
\* and a symmetric copy is gated through the record of its own pass index:
\* after an update step, every copy that ran for a command has had the record
\* with its own pass index handed to the gating of that command.
C13_GatingRecordOfOwnPass ==
  pin.fn = "stroke_update_step"
  => \A i \in 1..Len(log) :
       log[i].type = "action"
         => SCULPT_get_symmetry_pass(log[i]) \in cache[1].last_spacing_t[log[i].step]

\* C14: within one stroke step an undo snapshot is pushed exactly once for each
\* node affected in the step, however many symmetry or tile instances and
\* sub-commands gather the node: exactly one brush action of the step pushes
\* for the node, and it pushes one snapshot.
C14_UndoPushedOncePerNode ==
  pin.fn = "stroke_update_step"
  => \A n \in 1..NumVerts :
       (\E i \in 1..Len(log) : log[i].type = "action" /\ n \in log[i].nodes)
         => /\ Cardinality({i \in 1..Len(log) :
                              /\ log[i].type = "action"
                              /\ \E u \in log[i].undo_push : u.node = n}) = 1
            /\ \A i \in 1..Len(log) :
                 log[i].type = "action"
                   => Cardinality({u \in log[i].undo_push : u.node = n}) <= 1

\* C15: every SCULPT_run_command invocation runs the tool routine of exactly
\* one tool, the tool of its command: no routine of another tool runs in the
\* same invocation.
C15_OneToolRoutinePerCommand ==
  pin.fn = "stroke_update_step"
  => \A i \in 1..Len(log) :
       log[i].type = "action" => log[i].routines = <<log[i].tool>>

\* C16: SCULPT_stroke_is_first_brush_step is true during exactly one brush
\* action of a stroke, the main symmetry pass of the first stroke step, whatever
\* the symmetry and however many sub-commands the command list has: among the
\* brush actions of the first step that ran, exactly one sees it true, and no
\* brush action of a later step does.
C16_FirstBrushStepOnce ==
  pin.fn = "stroke_update_step"
  => LET first == {i \in 1..Len(log) :
                     log[i].type = "action" /\ log[i].first_brush_step}
     IN  /\ (stroke.steps = 1 /\ \E i \in 1..Len(log) : log[i].type = "action")
               => Cardinality(first) = 1
         /\ stroke.steps > 1 => first = {}

(***************************************************************************)
(* Face sets and visibility. fmesh.mpoly lists the vertices of each face,  *)
(* fmesh.face_sets is ss->face_sets (the face set attribute of the BMFace  *)
(* on PBVH_BMESH), fmesh.need_boundary holds the vertex indices whose      *)
(* MSculptVert has SCULPTVERT_NEED_BOUNDARY. On PBVH_GRIDS every corner of *)
(* a face has a grid of grid_area elements, and a vertex is a grid element.*)
(***************************************************************************)

MaxFaces == 2
\* Number of calls made on one mesh.
MaxCalls == 1
FaceSetIds == {0 - 2, 0 - 1, 0, 1, 2}
SCULPT_FACE_SET_NONE == 0

\* key->grid_area
grid_area == 2

\* A strip of n triangles.
TriangleStrip(n) == [f \in 1..n |-> <<f - 1, f, f + 1>>]

FaceMeshes ==
  UNION {{[mpoly |-> TriangleStrip(n), face_sets |-> fs, need_boundary |-> {},
            calls |-> 0] :
            fs \in [1..n -> FaceSetIds]} : n \in 1..MaxFaces}

\* The vertex indices of the mesh on a backend.
FaceVertIndices(type, fm) ==
  IF type = "GRIDS" THEN 0..(Len(fm.mpoly) * 3 * grid_area - 1)
  ELSE 0..(Len(fm.mpoly) + 1)

\* ss->pmap->pmap[v]: the faces of vertex v (BM_LOOPS_OF_VERT gives one loop
\* of v in each of them).
pmap(fm, v) == {f \in 1..Len(fm.mpoly) : \E k \in 1..3 : fm.mpoly[f][k] = v}

\* BKE_subdiv_ccg_grid_to_face_index: the face whose corner the grid is.
BKE_subdiv_ccg_grid_to_face_index(grid_index) == (grid_index \div 3) + 1

\* The base-mesh vertex at the corner of the grid of grid element i.
GridCornerVertex(fm, i) ==
  LET grid_index == i \div grid_area
  IN  fm.mpoly[BKE_subdiv_ccg_grid_to_face_index(grid_index)][(grid_index % 3) + 1]

\* The largest element of a non-empty set of integers.
MaxOf(S) == CHOOSE m \in S : \A x \in S : x <= m

\* SCULPT_vertex_visible_set: the new set of hidden vertices.
SCULPT_vertex_visible_set(type, hid, vertex, visible) ==
  LET v == BKE_pbvh_vertex_to_index(type, vertex)
  IN  CASE type = "FACES" -> IF visible THEN hid \ {v} ELSE hid \cup {v}
        [] type = "BMESH" -> IF visible THEN hid \ {v} ELSE hid \cup {v}
        [] OTHER -> hid

\* SCULPT_vertex_face_set_set
SCULPT_vertex_face_set_set(type, fm, index, face_set) ==
  LET v == BKE_pbvh_vertex_to_index(type, index)
  IN  CASE type = "FACES" ->
             [fm EXCEPT
                !.need_boundary =
                   @ \cup {v} \cup {fm.mpoly[f][k] : f \in pmap(fm, v), k \in 1..3},
                !.face_sets = [f \in 1..Len(fm.mpoly) |->
                                 IF f \in pmap(fm, v) /\ fm.face_sets[f] > 0
                                   THEN Abs(face_set) ELSE fm.face_sets[f]]]
        [] type = "BMESH" ->
             [fm EXCEPT
                !.need_boundary = @ \cup {v},
                !.face_sets = [f \in 1..Len(fm.mpoly) |->
                                 IF /\ f \in pmap(fm, v)
                                    /\ fm.face_sets[f] >= 0
                                    /\ fm.face_sets[f] # Abs(face_set)
                                   THEN Abs(face_set) ELSE fm.face_sets[f]]]
        [] OTHER ->
             LET face_index == BKE_subdiv_ccg_grid_to_face_index(v \div grid_area)
             IN  IF fm.face_sets[face_index] > 0
                   THEN [fm EXCEPT !.face_sets[face_index] = Abs(face_set)]
                   ELSE fm

\* SCULPT_face_sets_visibility_all_set without the remapping of the face set 0.
SCULPT_face_sets_visibility_all_set_noremap(type, fm, visible) ==
  [fm EXCEPT !.face_sets = [f \in 1..Len(fm.mpoly) |->
                              IF visible THEN Abs(fm.face_sets[f])
                              ELSE 0 - Abs(fm.face_sets[f])]]

\* SCULPT_face_sets_visibility_all_set: the three backends run the same loop
\* body on every face.
SCULPT_face_sets_visibility_all_set(type, fm, visible) ==
  [fm EXCEPT !.face_sets = [f \in 1..Len(fm.mpoly) |->
                              LET fset == IF fm.face_sets[f] = SCULPT_FACE_SET_NONE
                                            THEN 1 ELSE fm.face_sets[f]
                              IN  IF visible THEN Abs(fset) ELSE 0 - Abs(fset)]]

\* The loop of SCULPT_vertex_face_set_get on PBVH_FACES over the faces fs of the
\* vertex, in index order.
RECURSIVE FaceSetGetLoop(_, _, _)
FaceSetGetLoop(fm, fs, face_set) ==
  IF fs = {} THEN face_set
  ELSE LET f == CHOOSE g \in fs : \A h \in fs : g <= h
       IN  FaceSetGetLoop(fm, fs \ {f},
                          IF fm.face_sets[f] > face_set THEN Abs(fm.face_sets[f])
                          ELSE face_set)

\* SCULPT_vertex_face_set_get
SCULPT_vertex_face_set_get(type, fm, index) ==
  LET v == BKE_pbvh_vertex_to_index(type, index)
  IN  CASE type = "FACES" -> FaceSetGetLoop(fm, pmap(fm, v), 0)
        [] type = "BMESH" -> MaxOf({0 - 1} \cup {Abs(fm.face_sets[f]) : f \in pmap(fm, v)})
        [] OTHER -> fm.face_sets[BKE_subdiv_ccg_grid_to_face_index(v \div grid_area)]

FaceSetsInit ==
  /\ pin = [fn |-> "none"]
  /\ pout = NoResult
  /\ pbvh_type \in {"FACES", "GRIDS", "BMESH"}
  /\ fmesh \in FaceMeshes
  /\ bm = <<>>
  /\ tasks = <<>>
  /\ hidden = {}
  /\ medge = <<>>
  /\ fset_hidden = {}
  /\ use_fake_neighbors = FALSE
  /\ fake_neighbor_index = <<>>
  /\ flood = [phase |-> "none"]
  /\ flood_calls = <<>>
  /\ co = <<>>
  /\ connected_component = <<>>
  /\ current_max_distance = 0
  /\ fake_pc = [i |-> PBVH_REF_NONE]
  /\ msculptvert = <<>>
  /\ topology_edits = 0
  /\ StrokeIdle

faceSetsIdle == <<medge, fset_hidden, bm, tasks, fakeVars, floodVars, ccVars, mvVars, strokeVars>>

Vertex_visible_set ==
  \E i \in FaceVertIndices(pbvh_type, fmesh), visible \in BOOLEAN :
    LET vertex == BKE_pbvh_index_to_vertex(pbvh_type, i)
    IN  /\ fmesh.calls < MaxCalls
        /\ hidden' = SCULPT_vertex_visible_set(pbvh_type, hidden, vertex, visible)
        /\ fmesh' = [fmesh EXCEPT !.calls = @ + 1]
        /\ pin' = [fn |-> "vertex_visible_set", vertex |-> vertex, visible |-> visible]
        /\ pout' = NoResult
        /\ UNCHANGED <<pbvh_type, faceSetsIdle>>

Vertex_face_set_set ==
  \E i \in FaceVertIndices(pbvh_type, fmesh), face_set \in {1, 2} :
    LET vertex == BKE_pbvh_index_to_vertex(pbvh_type, i)
    IN  /\ fmesh.calls < MaxCalls
        /\ fmesh' = [SCULPT_vertex_face_set_set(pbvh_type, fmesh, vertex, face_set)
                       EXCEPT !.calls = @ + 1]
        /\ pin' = [fn |-> "vertex_face_set_set", vertex |-> vertex, face_set |-> face_set]
        /\ pout' = NoResult
        /\ UNCHANGED <<pbvh_type, hidden, faceSetsIdle>>

Face_sets_visibility_all_set ==
  \E visible \in BOOLEAN :
    /\ fmesh.calls < MaxCalls
    /\ fmesh' = [SCULPT_face_sets_visibility_all_set(pbvh_type, fmesh, visible)
                   EXCEPT !.calls = @ + 1]
    /\ pin' = [fn |-> "face_sets_visibility_all_set", visible |-> visible,
               face_sets |-> fmesh.face_sets]
    /\ pout' = NoResult
    /\ UNCHANGED <<pbvh_type, hidden, faceSetsIdle>>

Vertex_face_set_get ==
  \E i \in FaceVertIndices(pbvh_type, fmesh) :
    LET vertex == BKE_pbvh_index_to_vertex(pbvh_type, i)
    IN  /\ fmesh.calls < MaxCalls
        /\ fmesh' = [fmesh EXCEPT !.calls = @ + 1]
        /\ pin' = [fn |-> "vertex_face_set_get", vertex |-> vertex]
        /\ pout' = <<SCULPT_vertex_face_set_get(pbvh_type, fmesh, vertex)>>
        /\ UNCHANGED <<pbvh_type, hidden, faceSetsIdle>>

FaceSetsNext ==
  \/ Vertex_visible_set
  \/ Vertex_face_set_set
  \/ Face_sets_visibility_all_set
  \/ Vertex_face_set_get

SpecFaceSets == FaceSetsInit /\ [][FaceSetsNext]_vars

\* The vertex indices that share a face with the vertex of index v: on
\* PBVH_GRIDS the elements of the grids of the same face.
SharesFace(type, fm, v) ==
  IF type = "GRIDS"
    THEN {w \in FaceVertIndices(type, fm) :
            BKE_subdiv_ccg_grid_to_face_index(w \div grid_area)
              = BKE_subdiv_ccg_grid_to_face_index(v \div grid_area)}
    ELSE {fm.mpoly[f][k] : f \in pmap(fm, v), k \in 1..3}

\* C17: on every backend, after SCULPT_vertex_visible_set or
\* SCULPT_vertex_face_set_set the flag NEED_BOUNDARY is set on the modified
\* vertex and on every vertex that shares a face with it.
C17_NeedBoundaryMarked ==
  pin.fn \in {"vertex_visible_set", "vertex_face_set_set"}
  => LET v == BKE_pbvh_vertex_to_index(pbvh_type, pin.vertex)
     IN  ({v} \cup SharesFace(pbvh_type, fmesh, v)) \subseteq fmesh.need_boundary

\* C18: after SCULPT_face_sets_visibility_all_set(visible) every face has a
\* face set other than 0, positive exactly if visible, whose magnitude is the
\* one it had before, and 1 where it had the face set 0.
C18_VisibilityAllSet ==
  pin.fn = "face_sets_visibility_all_set"
  => \A f \in 1..Len(fmesh.face_sets) :
       /\ fmesh.face_sets[f] # 0
       /\ (fmesh.face_sets[f] > 0) <=> pin.visible
       /\ Abs(fmesh.face_sets[f])
            = IF pin.face_sets[f] = 0 THEN 1 ELSE Abs(pin.face_sets[f])

C18_Witness ==
  /\ pin.fn = "face_sets_visibility_all_set"
  /\ ~pin.visible
  /\ \E f, g \in 1..Len(fmesh.face_sets) :
       /\ pin.face_sets[f] = 0 /\ fmesh.face_sets[f] = 0 - 1
       /\ pin.face_sets[g] = 2 /\ fmesh.face_sets[g] = 0 - 2

\* C19: SCULPT_vertex_face_set_get returns the same value on the three
\* backends for the same face sets and corresponding vertices, hidden faces
\* included: the value returned for a vertex is what PBVH_FACES and PBVH_BMESH
\* return for the base-mesh vertex, and what PBVH_GRIDS returns for the
\* elements of a grid at that vertex when the vertex has one face.
C19_FaceSetGetSameOnBackends ==
  pin.fn = "vertex_face_set_get"
  => LET i == BKE_pbvh_vertex_to_index(pbvh_type, pin.vertex)
         v == IF pbvh_type = "GRIDS" THEN GridCornerVertex(fmesh, i) ELSE i
     IN  (pbvh_type # "GRIDS" \/ Cardinality(pmap(fmesh, v)) = 1)
           => /\ pout[1] = SCULPT_vertex_face_set_get("FACES", fmesh, v)
              /\ pout[1] = SCULPT_vertex_face_set_get(
                             "BMESH", fmesh, BKE_pbvh_index_to_vertex("BMESH", v))
              /\ \A w \in FaceVertIndices("GRIDS", fmesh) :
                   (GridCornerVertex(fmesh, w) = v /\ Cardinality(pmap(fmesh, v)) = 1)
                     => pout[1] = SCULPT_vertex_face_set_get("GRIDS", fmesh, w)

\* The neighbour list of the vertex of index i in the current session.
NeighborsOf(i) ==
  SCULPT_vertex_neighbors_get(pbvh_type, medge, fset_hidden, use_fake_neighbors,
                              fake_neighbor_index, BKE_pbvh_index_to_vertex(pbvh_type, i))

\* Fake neighbours are enabled and the vertex of index i has one assigned.
HasFakeNeighbor(i) ==
  /\ use_fake_neighbors
  /\ fake_neighbor_index # <<>>
  /\ fake_neighbor_index[i + 1] # FAKE_NEIGHBOR_NONE

\* C20: the neighbour list of a vertex has a fake-neighbour entry exactly if
\* fake neighbours are enabled and one is assigned to the vertex; the entry is
\* the last of the list, names the assigned vertex and has the none edge
\* reference, which no other entry has.
C20_FakeNeighborEntry ==
  \A i \in VertIndices :
    LET iter == NeighborsOf(i)
    IN  /\ (\E k \in 1..Len(iter) : iter[k].edge = PBVH_REF_NONE) <=> HasFakeNeighbor(i)
        /\ HasFakeNeighbor(i)
             => /\ iter[Len(iter)] = [vertex |-> fake_neighbor_index[i + 1],
                                      edge |-> PBVH_REF_NONE]
                /\ \A k \in 1..(Len(iter) - 1) : iter[k].edge # PBVH_REF_NONE

\* C21: on PBVH_BMESH the neighbour list of a vertex never holds the vertex
\* itself and never holds a vertex twice, with fake neighbours enabled or not.
C21_BmeshNeighborsDistinct ==
  pbvh_type = "BMESH"
  => \A i \in VertIndices :
       LET iter == NeighborsOf(i)
       IN  /\ \A k \in 1..Len(iter) : iter[k].vertex # BKE_pbvh_index_to_vertex(pbvh_type, i)
           /\ \A k, l \in 1..Len(iter) : iter[k].vertex = iter[l].vertex => k = l

\* C22: after the proxy combination that follows a sub-command no node holds
\* a proxy, whatever the tool of the brush and of the sub-command: at the end
\* of an update step in which a sub-command ran, every node is without proxy.
C22_NoProxyLeft ==
  (pin.fn = "stroke_update_step" /\ \E j \in 1..Len(log) : log[j].type = "combine")
  => \A n \in 1..NumVerts : proxies[n] = <<>>

\* The last call of sculpt_combine_proxies ran its task (it did not return early).
CombineRan ==
  /\ pin.fn = "combine_proxies"
  /\ cache # <<>>
  /\ cache[1].supports_gravity \/ ~sculpt_tool_is_proxy_used(sd.tool)

MaxElems == 3

ElemAddrs == 1..MaxElems
ElemIds == 0..(MaxElems - 1)
Elems == [htype : {"BM_VERT", "BM_EDGE", "BM_FACE"}, id : ElemIds]
LiveAddrs(elems) == {a \in ElemAddrs : elems[a] # <<>>}

\* The ID of the element at an address.
BM_ELEM_GET_ID(elems, a) == elems[a].id

\* The element that has the ID, as <<address>>, or <<>> for NULL.
BM_ELEM_FROM_ID_SAFE(elems, id) ==
  IF \E a \in LiveAddrs(elems) : elems[a].id = id
    THEN <<CHOOSE a \in LiveAddrs(elems) : elems[a].id = id>>
    ELSE <<>>

\* The pools BKE_pbvh_bmesh_update_topology_nodes can leave: any elements
\* are killed, and at most one element is made at a free address with an ID
\* no live element has (the ID of a killed element included).
TopologyResults(elems) ==
  LET Killed(K) == [a \in ElemAddrs |-> IF a \in K THEN <<>> ELSE elems[a]]
      Made(e) == {[e EXCEPT ![a] = n] :
                    a \in ElemAddrs \ LiveAddrs(e),
                    n \in {m \in Elems : \A l \in LiveAddrs(e) : e[l].id # m.id}}
  IN  UNION {{Killed(K)} \cup Made(Killed(K)) : K \in SUBSET LiveAddrs(elems)}

\* The handle without the test of the element's type.
active_handle_resync_anytype(elems, handle, act, htype) ==
  IF act # 0 - 1
    THEN LET v == BM_ELEM_FROM_ID_SAFE(elems, act)
         IN  IF v # <<>> THEN v[1] ELSE PBVH_REF_NONE
    ELSE handle

\* The handle after the update: looked up by the ID taken before it.
active_handle_resync(elems, handle, act, htype) ==
  IF act # 0 - 1
    THEN LET v == BM_ELEM_FROM_ID_SAFE(elems, act)
         IN  IF v # <<>> /\ elems[v[1]].htype = htype THEN v[1] ELSE PBVH_REF_NONE
    ELSE handle

\* sculpt_topology_update, with the pool the topology update leaves.
sculpt_topology_update(bm0, after) ==
  LET actv == IF bm0.active_vertex # PBVH_REF_NONE
                THEN BM_ELEM_GET_ID(bm0.elems, bm0.active_vertex) ELSE 0 - 1
      actf == IF bm0.active_face # PBVH_REF_NONE
                THEN BM_ELEM_GET_ID(bm0.elems, bm0.active_face) ELSE 0 - 1
  IN  [elems |-> after,
       active_vertex |-> active_handle_resync(after, bm0.active_vertex, actv, "BM_VERT"),
       active_face |-> active_handle_resync(after, bm0.active_face, actf, "BM_FACE"),
       actv |-> actv, actf |-> actf]

\* A vertex at the first address, a face at the second, edges or nothing
\* at the others; each handle is none or refers to its element.
TopologyInit ==
  /\ pin = [fn |-> "none"]
  /\ pout = NoResult
  /\ pbvh_type = "BMESH"
  /\ \E E \in SUBSET (ElemAddrs \ {1, 2}), av \in {PBVH_REF_NONE, 1}, af \in {PBVH_REF_NONE, 2} :
       bm = [elems |-> [a \in ElemAddrs |->
                          IF a = 1 THEN [htype |-> "BM_VERT", id |-> 0]
                          ELSE IF a = 2 THEN [htype |-> "BM_FACE", id |-> 1]
                          ELSE IF a \in E THEN [htype |-> "BM_EDGE", id |-> a - 1]
                          ELSE <<>>],
             active_vertex |-> av,
             active_face |-> af]
  /\ tasks = <<>>
  /\ fmesh = <<>>
  /\ hidden = {}
  /\ medge = <<>>
  /\ fset_hidden = {}
  /\ use_fake_neighbors = FALSE
  /\ fake_neighbor_index = <<>>
  /\ flood = [phase |-> "none"]
  /\ flood_calls = <<>>
  /\ co = <<>>
  /\ connected_component = <<>>
  /\ current_max_distance = 0
  /\ fake_pc = [i |-> PBVH_REF_NONE]
  /\ msculptvert = <<>>
  /\ topology_edits = 0
  /\ StrokeIdle

\* One call of sculpt_topology_update.
Topology_update ==
  \E after \in TopologyResults(bm.elems) :
    LET r == sculpt_topology_update(bm, after)
    IN  /\ topology_edits < MaxEdits
        /\ topology_edits' = topology_edits + 1
        /\ bm' = [elems |-> r.elems, active_vertex |-> r.active_vertex,
                  active_face |-> r.active_face]
        /\ pin' = [fn |-> "topology_update", actv |-> r.actv, actf |-> r.actf,
                   before |-> bm]
        /\ pout' = NoResult
        /\ UNCHANGED <<pbvh_type, medge, hidden, fset_hidden, fmesh, tasks, fakeVars,
                       floodVars, ccVars, msculptvert, strokeVars>>

TopologyNext == Topology_update

SpecTopology == TopologyInit /\ [][TopologyNext]_vars

\* Whether a handle is the address of the live element of the type that has
\* the ID, or none when no live element of the type has the ID.
HandleFollowsId(handle, id, htype) ==
  LET having == {a \in LiveAddrs(bm.elems) :
                   bm.elems[a].htype = htype /\ bm.elems[a].id = id}
  IN  IF having = {} THEN handle = PBVH_REF_NONE ELSE handle \in having

\* C24: after a dynamic-topology update the active vertex handle is the
\* live vertex that has the persistent ID the active vertex had before the
\* update, or the none sentinel when no live vertex has that ID (or there
\* was no active vertex); so it is never a freed address nor an address
\* re-used by another element.  The same holds for the active face handle.
C24_ActiveHandlesFollowId ==
  pin.fn = "topology_update"
  => /\ HandleFollowsId(bm.active_vertex,
                        IF pin.before.active_vertex = PBVH_REF_NONE THEN 0 - 1
                        ELSE pin.before.elems[pin.before.active_vertex].id, "BM_VERT")
     /\ HandleFollowsId(bm.active_face,
                        IF pin.before.active_face = PBVH_REF_NONE THEN 0 - 1
                        ELSE pin.before.elems[pin.before.active_face].id, "BM_FACE")

\* An update that killed the active vertex and gave its ID to a new edge at
\* the same address, and one after which the active face is still alive.
C24_Witness ==
  /\ pin.fn = "topology_update"
  /\ pin.before.active_vertex = 1
  /\ bm.elems[1] = [htype |-> "BM_EDGE", id |-> 0]
  /\ bm.active_vertex = PBVH_REF_NONE
  /\ pin.before.active_face = 2
  /\ bm.active_face = 2

(***************************************************************************)
(* Seeding a flood fill from the active vertex.                            *)
(***************************************************************************)

\* SCULPT_nearest_vertex_get: the values the reduction over the node chunks
\* can return, a vertex at minimal distance below max_distance or none.
SCULPT_nearest_vertex_get(type, vco, location, max_distance) ==
  LET dist(v) == len_squared_v3v3(vco[BKE_pbvh_vertex_to_index(type, v) + 1], location)
      cand == {v \in VertRefs(type) : dist(v) < max_distance * max_distance}
  IN  IF cand = {} THEN {PBVH_REF_NONE}
      ELSE {v \in cand : \A w \in cand : dist(v) <= dist(w)}

\* SCULPT_active_vertex_co_get: the coordinates the read can yield.  The
\* none sentinel is no vertex: reading through it yields whatever lies
\* there, here a vector near the mesh or one far from it.
SCULPT_active_vertex_co_get(type, vco, active_vertex) ==
  IF active_vertex = PBVH_REF_NONE THEN {zero_v3, <<100, 0, 0>>}
  ELSE {vco[BKE_pbvh_vertex_to_index(type, active_vertex) + 1]}

\* SCULPT_floodfill_add_active: the passes i..symm of its loop.  f.queue is
\* the flood fill's queue, f.read the vertex handles whose coordinates
\* were read; the result is the set of outcomes.
RECURSIVE FloodAddActiveFrom(_, _, _, _, _, _, _)
FloodAddActiveFrom(type, vco, active_vertex, radius, symm, i, f) ==
  LET Rest(g) == FloodAddActiveFrom(type, vco, active_vertex, radius, symm, i + 1, g)
      Add(g, v) == IF v # PBVH_REF_NONE THEN [g EXCEPT !.queue = Append(@, v)] ELSE g
  IN  IF i > symm THEN {f}
      ELSE IF ~SCULPT_is_symmetry_iteration_valid(i, symm) THEN Rest(f)
      ELSE IF i = 0 THEN Rest(Add(f, active_vertex))
      ELSE IF radius > 0
        THEN UNION {Rest(Add([f EXCEPT !.read = @ \cup {active_vertex}], v)) :
                      v \in UNION {SCULPT_nearest_vertex_get(type, vco, flip_v3_v3(loc, i), radius) :
                                     loc \in SCULPT_active_vertex_co_get(type, vco, active_vertex)}}
      ELSE Rest(f)

SeedInit ==
  /\ pin = [fn |-> "none"]
  /\ pout = NoResult
  /\ pbvh_type \in {"FACES", "BMESH"}
  /\ medge = <<>>
  /\ hidden = {}
  /\ fset_hidden = {}
  /\ fmesh = <<>>
  /\ bm = <<>>
  /\ tasks = <<>>
  /\ use_fake_neighbors = FALSE
  /\ fake_neighbor_index = <<>>
  /\ flood = NewFlood
  /\ flood_calls = <<>>
  /\ co \in {InitialCo, [n \in 1..NumVerts |-> <<n - 1, 0, 0>>]}
  /\ connected_component = <<>>
  /\ current_max_distance = 0
  /\ fake_pc = [i |-> PBVH_REF_NONE]
  /\ msculptvert = <<>>
  /\ topology_edits = 0
  /\ StrokeIdle

\* SCULPT_floodfill_add_active on a flood fill that was just initialised.
Floodfill_add_active ==
  /\ pin.fn = "none"
  /\ \E active_vertex \in VertRefs(pbvh_type) \cup {PBVH_REF_NONE},
        symm \in 0..7, radius \in {0} \cup MaxDistances :
    \E r \in FloodAddActiveFrom(pbvh_type, co, active_vertex, radius, symm, 0,
                                [queue |-> flood.queue, read |-> {}]) :
      /\ pin' = [fn |-> "floodfill_add_active", active_vertex |-> active_vertex,
                 symm |-> symm, radius |-> radius, read |-> r.read]
      /\ flood' = [flood EXCEPT !.queue = r.queue]
      /\ UNCHANGED <<pout, meshVars, fakeVars, flood_calls, ccVars, mvVars, strokeVars>>

SeedNext == Floodfill_add_active

SpecSeed == SeedInit /\ [][SeedNext]_vars

\* C25: when the active vertex is the none sentinel, SCULPT_floodfill_add_active
\* adds no seed and reads the coordinates of no vertex, and in no case is
\* the none sentinel enqueued or its coordinates read, for every symmetry
\* setting and radius.
C25_NoneSentinelNotSeeded ==
  pin.fn = "floodfill_add_active"
  => /\ PBVH_REF_NONE \notin pin.read
     /\ \A k \in 1..Len(flood.queue) : flood.queue[k] # PBVH_REF_NONE
     /\ pin.active_vertex = PBVH_REF_NONE => flood.queue = <<>>

\* C26: a step of the neighbour loop of SCULPT_floodfill_execute that
\* invokes the visitor does so with a visible vertex as `to`, and a vertex
\* it enqueues is visible: hidden vertices are not expanded into.
C26_HiddenNotExpandedInto ==
  [][(flood.phase = "executing" /\ flood.i >= 1 /\ flood'.phase = "executing")
       => /\ Len(flood_calls') > Len(flood_calls)
               => BKE_pbvh_vertex_to_index(pbvh_type, flood_calls'[Len(flood_calls')][2])
                    \notin hidden
          /\ Len(flood'.queue) > Len(flood.queue)
               => BKE_pbvh_vertex_to_index(pbvh_type, flood'.queue[Len(flood'.queue)])
                    \notin hidden]_vars

\* A finished flood fill that invoked the visitor from a vertex that has a
\* hidden neighbour.
C26_Witness ==
  /\ flood.phase = "done"
  /\ \E k \in 1..Len(flood_calls), h \in hidden, e \in 1..Len(medge) :
       /\ BKE_pbvh_vertex_to_index(pbvh_type, flood_calls[k][1]) \in {medge[e][1], medge[e][2]}
       /\ h \in {medge[e][1], medge[e][2]}
       /\ h # BKE_pbvh_vertex_to_index(pbvh_type, flood_calls[k][1])

\* The vertex indices of `allowed` joined to a vertex of S by a path of
\* edges that passes over vertices of `allowed` only.
RECURSIVE ReachedFrom(_, _)
ReachedFrom(S, allowed) ==
  LET more == {v \in allowed :
                 \E e \in 1..Len(medge), u \in S : {u, v} = {medge[e][1], medge[e][2]}}
  IN  IF more \subseteq S THEN S ELSE ReachedFrom(S \cup more, allowed)

\* SCULPT_connected_components_ensure has run and no ensure is under way.
ComponentsLabelled == connected_component # <<>> /\ fake_pc.i = PBVH_REF_NONE

\* C27: after SCULPT_connected_components_ensure two visible vertices have
\* the same component ID exactly when a path of visible vertices joins
\* them, vertices without neighbours and the first component included.
C27_ComponentIdIffVisiblePath ==
  ComponentsLabelled
  => \A a, b \in VertIndices \ hidden :
       (connected_component[a + 1] = connected_component[b + 1])
         <=> (b \in ReachedFrom({a}, VertIndices \ hidden))

\* C28: after SCULPT_fake_neighbors_ensure every recorded fake neighbour
\* of a vertex lies in another connected component of the mesh than the
\* vertex, and no vertex is its own fake neighbour.
C28_FakeLinkJoinsComponents ==
  (fake_neighbor_index # <<>> /\ fake_pc.i = PBVH_REF_NONE)
  => \A a \in VertIndices :
       fake_neighbor_index[a + 1] # FAKE_NEIGHBOR_NONE
         => LET b == BKE_pbvh_vertex_to_index(pbvh_type, fake_neighbor_index[a + 1])
            IN  /\ b # a
                /\ b \notin ReachedFrom({a}, VertIndices)

\* C29: a SCULPT_fake_neighbors_ensure call that follows a topology update
\* which changed the edges starts the table anew (components labelled
\* again, the vertex loop entered), also when its max distance is the one
\* the table was computed with.
C29_RecomputedAfterTopologyUpdate ==
  [][(pin.fn = "topology_update" /\ pin'.fn = "fake_neighbors_ensure"
        /\ fake_neighbor_index # <<>>)
       => /\ connected_component' # <<>>
          /\ fake_pc'.i = 0]_vars

(***************************************************************************)
(* SCULPT_vertex_valence_get called by several tasks on one vertex.  The   *)
(* function takes no lock, so the tasks interleave at each access of the   *)
(* vertex's MSculptVert.  tasks.vertex is the vertex, tasks.t[k] the       *)
(* position of task k in the function with its locals.                     *)
(***************************************************************************)
NumTasks == 2

\* Every task has entered the function while NEED_VALENCE is set and the
\* stored valence is a stale one.
TasksInit ==
  /\ pin = [fn |-> "none"]
  /\ pout = NoResult
  /\ pbvh_type \in {"FACES", "BMESH"}
  /\ medge \in MeshEdgeLists
  /\ pbvh_type = "FACES" => \A a, b \in 1..Len(medge) : medge[a] = medge[b] => a = b
  /\ hidden = {}
  /\ fset_hidden = {}
  /\ fmesh = <<>>
  /\ bm = <<>>
  /\ \E vertex \in VertRefs(pbvh_type) :
       tasks = [vertex |-> vertex,
                t |-> [k \in 1..NumTasks |-> [pc |-> "test", tot |-> 0, ret |-> 0]]]
  /\ use_fake_neighbors = FALSE
  /\ fake_neighbor_index = <<>>
  /\ flood = [phase |-> "none"]
  /\ flood_calls = <<>>
  /\ co = <<>>
  /\ connected_component = <<>>
  /\ current_max_distance = 0
  /\ fake_pc = [i |-> PBVH_REF_NONE]
  /\ \E stale \in 0..NumVerts :
       msculptvert = [i \in 1..NumVerts |-> [need_valence |-> TRUE, valence |-> stale]]
  /\ topology_edits = 0
  /\ StrokeIdle

tasksIdle == <<pureVars, pbvh_type, medge, hidden, fset_hidden, fmesh, bm, fakeVars,
               floodVars, ccVars, topology_edits, strokeVars>>

TaskMv == SCULPT_vertex_get_sculptvert(pbvh_type, tasks.vertex)

\* if (mv->flag & SCULPTVERT_NEED_VALENCE)
Task_test_flag(k) ==
  /\ tasks.t[k].pc = "test"
  /\ tasks' = [tasks EXCEPT !.t[k].pc =
                 IF msculptvert[TaskMv].need_valence THEN "clear" ELSE "return"]
  /\ UNCHANGED <<tasksIdle, msculptvert>>

\* mv->flag &= ~SCULPTVERT_NEED_VALENCE
Task_clear_flag(k) ==
  /\ tasks.t[k].pc = "clear"
  /\ msculptvert' = [msculptvert EXCEPT ![TaskMv].need_valence = FALSE]
  /\ tasks' = [tasks EXCEPT !.t[k].pc = "count"]
  /\ UNCHANGED tasksIdle

\* The neighbour loop that counts tot.
Task_count(k) ==
  /\ tasks.t[k].pc = "count"
  /\ tasks' = [tasks EXCEPT !.t[k].pc = "store",
                            !.t[k].tot = Len(SCULPT_vertex_neighbors_get(
                               pbvh_type, medge, fset_hidden, use_fake_neighbors,
                               fake_neighbor_index, tasks.vertex))]
  /\ UNCHANGED <<tasksIdle, msculptvert>>

\* mv->valence = tot
Task_store(k) ==
  /\ tasks.t[k].pc = "store"
  /\ msculptvert' = [msculptvert EXCEPT ![TaskMv].valence = tasks.t[k].tot]
  /\ tasks' = [tasks EXCEPT !.t[k].pc = "return"]
  /\ UNCHANGED tasksIdle

\* return mv->valence
Task_return(k) ==
  /\ tasks.t[k].pc = "return"
  /\ tasks' = [tasks EXCEPT !.t[k].pc = "done", !.t[k].ret = msculptvert[TaskMv].valence]
  /\ UNCHANGED <<tasksIdle, msculptvert>>

TasksNext ==
  \E k \in 1..NumTasks :
    \/ Task_test_flag(k)
    \/ Task_clear_flag(k)
    \/ Task_count(k)
    \/ Task_store(k)
    \/ Task_return(k)

SpecTasks == TasksInit /\ [][TasksNext]_vars

\* C30: when several tasks call SCULPT_vertex_valence_get on one vertex
\* while its NEED_VALENCE flag is set, every call returns the recounted
\* number of neighbours, never the valence stored before.
C30_ConcurrentCallsReturnRecount ==
  \A k \in 1..NumTasks :
    tasks.t[k].pc = "done"
      => tasks.t[k].ret = Len(SCULPT_vertex_neighbors_get(
                                pbvh_type, medge, fset_hidden, use_fake_neighbors,
                                fake_neighbor_index, tasks.vertex))

(***************************************************************************)
(* SCULPT_nearest_vertex_get as the task pool runs it: the gathered nodes  *)
(* are dealt to worker chunks, every chunk keeps its own                   *)
(* NearestVertexTLSData, and the chunks are merged into the caller's one   *)
(* by nearest_vertex_get_reduce in some order.                             *)
(***************************************************************************)
FLT_MAX == 1000000

\* The state nvtd is initialised with, copied to every chunk.
NearestVertexTLSData ==
  [nearest_vertex |-> PBVH_REF_NONE, nearest_vertex_distance_squared |-> FLT_MAX]

\* do_nearest_vertex_get_task_cb over the nodes k..Len(nodes) of one chunk.
RECURSIVE do_nearest_vertex_get_task_cb(_, _, _, _, _, _, _)
do_nearest_vertex_get_task_cb(type, vco, nodes, k, search_co, max_distance_squared, nvtd) ==
  IF k > Len(nodes) THEN nvtd
  ELSE
    LET distance_squared ==
          len_squared_v3v3(vco[BKE_pbvh_vertex_to_index(type, nodes[k]) + 1], search_co)
    IN  do_nearest_vertex_get_task_cb(type, vco, nodes, k + 1, search_co, max_distance_squared,
          IF /\ distance_squared < nvtd.nearest_vertex_distance_squared
             /\ distance_squared < max_distance_squared
            THEN [nearest_vertex |-> nodes[k],
                  nearest_vertex_distance_squared |-> distance_squared]
            ELSE nvtd)

\* The merge that keeps whatever the chunk holds.
nearest_vertex_get_reduce_chunk(join, nvtd) == nvtd

\* nearest_vertex_get_reduce
nearest_vertex_get_reduce(join, nvtd) ==
  IF join.nearest_vertex = PBVH_REF_NONE THEN nvtd
  ELSE IF nvtd.nearest_vertex_distance_squared < join.nearest_vertex_distance_squared
    THEN nvtd
  ELSE join

\* The merges of the chunks order[k..] into join.
RECURSIVE NearestReduceAll(_, _, _, _)
NearestReduceAll(results, order, k, join) ==
  IF k > Len(order) THEN join
  ELSE NearestReduceAll(results, order, k + 1,
                        nearest_vertex_get_reduce(join, results[order[k]]))

\* SCULPT_nearest_vertex_get for one dealing of the gathered nodes to
\* chunks and one merge order.
NearestVertexParallel(type, vco, chunks, order, location, max_distance) ==
  IF \A c \in 1..Len(chunks) : chunks[c] = <<>>
    THEN PBVH_REF_NONE
    ELSE LET results == [c \in 1..Len(chunks) |->
                           do_nearest_vertex_get_task_cb(type, vco, chunks[c], 1, location,
                             max_distance * max_distance, NearestVertexTLSData)]
         IN  NearestReduceAll(results, order, 1, NearestVertexTLSData).nearest_vertex

\* The orders of the elements of a set.
Orders(S) ==
  {q \in [1..Cardinality(S) -> S] : \A a, b \in 1..Cardinality(S) : q[a] = q[b] => a = b}

\* The dealings of a sequence of nodes to NumTasks chunks, cut at the
\* positions cuts[1] <= cuts[2] <= ...
ChunksOf(nodes, cuts) ==
  [c \in 1..NumTasks |->
     SubSeq(nodes, (IF c = 1 THEN 0 ELSE cuts[c - 1]) + 1,
                   IF c = NumTasks THEN Len(nodes) ELSE cuts[c])]

NearestInit ==
  /\ pin = [fn |-> "none"]
  /\ pout = NoResult
  /\ pbvh_type \in {"FACES", "BMESH"}
  /\ medge = <<>>
  /\ hidden = {}
  /\ fset_hidden = {}
  /\ fmesh = <<>>
  /\ bm = <<>>
  /\ tasks = <<>>
  /\ use_fake_neighbors = FALSE
  /\ fake_neighbor_index = <<>>
  /\ flood = [phase |-> "none"]
  /\ flood_calls = <<>>
  /\ co \in {c \in [1..NumVerts -> Points] : \A i \in 1..(NumVerts - 1) : c[i][1] <= c[i + 1][1]}
  /\ connected_component = <<>>
  /\ current_max_distance = 0
  /\ fake_pc = [i |-> PBVH_REF_NONE]
  /\ msculptvert = <<>>
  /\ topology_edits = 0
  /\ StrokeIdle

\* One call of SCULPT_nearest_vertex_get: the gathered nodes, their
\* dealing to chunks and the merge order are the task pool's choice.
Nearest_vertex_get ==
  /\ pin.fn = "none"
  /\ \E gathered \in SUBSET VertRefs(pbvh_type), location \in Points,
        max_distance \in {1} \cup MaxDistances :
       \E nodes \in Orders(gathered), order \in Orders(1..NumTasks),
          cuts \in {f \in [1..(NumTasks - 1) -> 0..Cardinality(gathered)] :
                      \A a, b \in 1..(NumTasks - 1) : a <= b => f[a] <= f[b]} :
         /\ pin' = [fn |-> "nearest_vertex_get", gathered |-> gathered,
                    chunks |-> ChunksOf(nodes, cuts), order |-> order,
                    location |-> location, max_distance |-> max_distance]
         /\ pout' = <<NearestVertexParallel(pbvh_type, co, ChunksOf(nodes, cuts), order,
                                            location, max_distance)>>
  /\ UNCHANGED <<meshVars, fakeVars, floodVars, ccVars, mvVars, strokeVars>>

NearestNext == Nearest_vertex_get

SpecNearest == NearestInit /\ [][NearestNext]_vars

\* The squared distance of a vertex from the location searched.
NearestDist(v) == len_squared_v3v3(co[BKE_pbvh_vertex_to_index(pbvh_type, v) + 1], pin.location)

\* C31: SCULPT_nearest_vertex_get returns a vertex of the gathered nodes
\* that is closer than the max distance and no farther than any other such
\* vertex, or the none sentinel when no gathered vertex is closer than the
\* max distance, however the nodes are dealt to chunks and in whatever
\* order the chunks are merged.
C31_NearestWhateverTheChunks ==
  pin.fn = "nearest_vertex_get"
  => LET close == {v \in pin.gathered : NearestDist(v) < pin.max_distance * pin.max_distance}
     IN  IF close = {} THEN pout[1] = PBVH_REF_NONE
         ELSE /\ pout[1] \in close
              /\ \A w \in close : NearestDist(pout[1]) <= NearestDist(w)

\* A call whose chunk merged last holds a vertex farther away than the
\* vertex returned, and whose chunk merged first found none.
C31_Witness ==
  /\ pin.fn = "nearest_vertex_get"
  /\ pout[1] # PBVH_REF_NONE
  /\ \E v \in pin.gathered :
       /\ NearestDist(v) < pin.max_distance * pin.max_distance
       /\ NearestDist(v) > NearestDist(pout[1])
       /\ \E k \in 1..Len(pin.chunks[pin.order[NumTasks]]) :
            pin.chunks[pin.order[NumTasks]][k] = v
  /\ \A k \in 1..Len(pin.chunks[pin.order[NumTasks]]) :
       pin.chunks[pin.order[NumTasks]][k] # pout[1]

(***************************************************************************)
(* Boundary and corner flags.  fmesh.mpoly lists the vertices of each face *)
(* in loop order, fmesh.face_sets is ss->face_sets, msculptvert[i].flag is *)
(* the set of SCULPTVERT_ flags of the MSculptVert (of vertex i - 1, or of *)
(* grid element i - 1 on PBVH_GRIDS).  On PBVH_GRIDS every face corner has *)
(* a grid of grid_area elements: the first is the corner's vertex, the     *)
(* others lie on the face's edge that starts at the corner.                *)
(***************************************************************************)

\* The polygon meshes: a quad, a triangle, two quads, a quad and a triangle,
\* three quads around one boundary vertex.
BoundaryPolys ==
  {<< <<0, 1, 2, 3>> >>,
   << <<0, 1, 2>> >>,
   << <<0, 1, 2, 3>>, <<1, 4, 5, 2>> >>,
   << <<0, 1, 2, 3>>, <<1, 4, 2>> >>,
   << <<0, 1, 2, 3>>, <<1, 4, 5, 2>>, <<2, 5, 6, 7>> >>}

PolyVerts(fm) ==
  UNION {{fm.mpoly[f][k] : k \in 1..Len(fm.mpoly[f])} : f \in 1..Len(fm.mpoly)}

\* The edges of a face, as sets of two vertices.
PolyEdges(poly) == {{poly[k], poly[(k % Len(poly)) + 1]} : k \in 1..Len(poly)}

\* ss->pmap->pmap[v].indices: the faces of vertex v, in index order.
PolysOfVert(fm, v) ==
  {f \in 1..Len(fm.mpoly) : \E k \in 1..Len(fm.mpoly[f]) : fm.mpoly[f][k] = v}

\* The vertices joined to v by an edge.
EdgeVertsOf(fm, v) ==
  {w \in PolyVerts(fm) : w # v /\ \E f \in 1..Len(fm.mpoly) : {v, w} \in PolyEdges(fm.mpoly[f])}

\* SCULPT_boundary_info_ensure: ss->vertex_info.boundary, the end vertices of
\* the edges that have fewer than two adjacent faces.
SCULPT_boundary_info_ensure(fm) ==
  {v \in PolyVerts(fm) :
     \E w \in EdgeVertsOf(fm, v) :
       Cardinality({f \in 1..Len(fm.mpoly) : {v, w} \in PolyEdges(fm.mpoly[f])}) < 2}

\* sculpt_check_boundary_vertex_in_base_mesh
sculpt_check_boundary_vertex_in_base_mesh(fm, v) == v \in SCULPT_boundary_info_ensure(fm)

\* sculpt_check_unique_face_set_in_base_mesh
sculpt_check_unique_face_set_in_base_mesh(fm, v) ==
  \A f, g \in PolysOfVert(fm, v) : Abs(fm.face_sets[f]) = Abs(fm.face_sets[g])

\* sculpt_check_unique_face_set_for_edge_in_base_mesh: p1 and p2 are the
\* first two faces of v1 that have a loop at v2.
sculpt_check_unique_face_set_for_edge_in_base_mesh(fm, v1, v2) ==
  LET with == {f \in PolysOfVert(fm, v1) : \E k \in 1..Len(fm.mpoly[f]) : fm.mpoly[f][k] = v2}
      p1 == CHOOSE f \in with : \A g \in with : f <= g
      p2 == CHOOSE f \in with \ {p1} : \A g \in with \ {p1} : f <= g
  IN  IF Cardinality(with) >= 2
        THEN Abs(fm.face_sets[p1]) = fm.face_sets[p2]
        ELSE TRUE

\* BKE_pbvh_update_vert_boundary_faces: the flags it leaves.  NEED_BOUNDARY
\* is cleared and the face set boundary flag is computed from the faces
\* of the vertex.
BKE_pbvh_update_vert_boundary_faces(fm, flag, v) ==
  (flag \ {"NEED_BOUNDARY", "FSET_BOUNDARY", "FSET_CORNER"})
    \cup (IF sculpt_check_unique_face_set_in_base_mesh(fm, v) THEN {} ELSE {"FSET_BOUNDARY"})

\* BKE_pbvh_update_vert_boundary: the flags it leaves on the dynamic mesh.
\* NEED_BOUNDARY is cleared; a vertex on an edge with fewer than two faces
\* is a boundary; faces that differ in face set or in sign make a face set
\* boundary.
BKE_pbvh_update_vert_boundary(fm, flag, v) ==
  (flag \ {"NEED_BOUNDARY", "BOUNDARY", "FSET_BOUNDARY", "FSET_CORNER"})
    \cup (IF v \in SCULPT_boundary_info_ensure(fm) THEN {"BOUNDARY"} ELSE {})
    \cup (IF \A f, g \in PolysOfVert(fm, v) : fm.face_sets[f] = fm.face_sets[g]
            THEN {} ELSE {"FSET_BOUNDARY"})

\* faces_update_boundary_flags
faces_update_boundary_flags(fm, flag, v) ==
  LET updated == BKE_pbvh_update_vert_boundary_faces(fm, flag, v) \ {"CORNER", "BOUNDARY"}
      count == Cardinality(PolysOfVert(fm, v))
      ok == ~\E f \in PolysOfVert(fm, v) : Len(fm.mpoly[f]) < 4
  IN  IF sculpt_check_boundary_vertex_in_base_mesh(fm, v)
        THEN updated \cup {"BOUNDARY"} \cup (IF count < 4 /\ ok THEN {"CORNER"} ELSE {})
        ELSE updated

\* The loops of the mesh, face by face: <<face, corner>>.
LoopsOf(fm) ==
  {<<f, k>> : f \in 1..Len(fm.mpoly), k \in 1..4} \cap
    UNION {{<<f, k>> : k \in 1..Len(fm.mpoly[f])} : f \in 1..Len(fm.mpoly)}

\* The elements that have an MSculptVert on a backend.
BoundaryVertIndices(type, fm) ==
  IF type = "GRIDS" THEN 0..(Cardinality(LoopsOf(fm)) * grid_area - 1)
  ELSE PolyVerts(fm)

\* BKE_subdiv_ccg_coarse_mesh_adjacency_info_get: the first element of the
\* grid of a corner is adjacent to the corner's vertex, the others to the
\* edge from that vertex to the next one of the face.
BKE_subdiv_ccg_coarse_mesh_adjacency_info_get(fm, index) ==
  LET grid_index == index \div grid_area
      loop == CHOOSE l \in LoopsOf(fm) :
                Cardinality({m \in LoopsOf(fm) :
                               m[1] < l[1] \/ (m[1] = l[1] /\ m[2] < l[2])}) = grid_index
      poly == fm.mpoly[loop[1]]
  IN  IF index % grid_area = 0
        THEN [adjacency |-> "SUBDIV_CCG_ADJACENT_VERTEX", v1 |-> poly[loop[2]], v2 |-> 0 - 1]
        ELSE [adjacency |-> "SUBDIV_CCG_ADJACENT_EDGE", v1 |-> poly[loop[2]],
              v2 |-> poly[(loop[2] % Len(poly)) + 1]]

\* grids_update_boundary_flags
grids_update_boundary_flags(fm, flag, index) ==
  LET cleared == flag \ {"CORNER", "BOUNDARY", "NEED_BOUNDARY", "FSET_BOUNDARY", "FSET_CORNER"}
      adj == BKE_subdiv_ccg_coarse_mesh_adjacency_info_get(fm, index)
  IN  CASE adj.adjacency = "SUBDIV_CCG_ADJACENT_VERTEX" ->
             cleared
               \cup (IF sculpt_check_unique_face_set_in_base_mesh(fm, adj.v1)
                       THEN {"FSET_BOUNDARY"} ELSE {})
               \cup (IF sculpt_check_boundary_vertex_in_base_mesh(fm, adj.v1)
                       THEN {"BOUNDARY"} ELSE {})
        [] adj.adjacency = "SUBDIV_CCG_ADJACENT_EDGE" ->
             cleared
               \cup (IF sculpt_check_unique_face_set_for_edge_in_base_mesh(fm, adj.v1, adj.v2)
                       THEN {"FSET_BOUNDARY"} ELSE {})
               \cup (IF /\ sculpt_check_boundary_vertex_in_base_mesh(fm, adj.v1)
                        /\ sculpt_check_boundary_vertex_in_base_mesh(fm, adj.v2)
                       THEN {"BOUNDARY"} ELSE {})
        [] OTHER -> cleared

\* The flag that answers a boundary type, and the one that answers a corner type.
BoundaryFlagOf(t) ==
  CASE t = "SCULPT_BOUNDARY_MESH" -> "BOUNDARY"
    [] t = "SCULPT_BOUNDARY_FACE_SET" -> "FSET_BOUNDARY"
    [] t = "SCULPT_BOUNDARY_SHARP" -> "SHARP_BOUNDARY"
    [] t = "SCULPT_BOUNDARY_SEAM" -> "SEAM_BOUNDARY"
    [] OTHER -> "UV_BOUNDARY"

CornerFlagOf(t) ==
  CASE t = "SCULPT_CORNER_MESH" -> "CORNER"
    [] t = "SCULPT_CORNER_FACE_SET" -> "FSET_CORNER"
    [] t = "SCULPT_CORNER_SEAM" -> "SEAM_CORNER"
    [] t = "SCULPT_CORNER_SHARP" -> "SHARP_CORNER"
    [] OTHER -> "UV_CORNER"

BoundaryTypes ==
  {"SCULPT_BOUNDARY_MESH", "SCULPT_BOUNDARY_FACE_SET", "SCULPT_BOUNDARY_SHARP",
   "SCULPT_BOUNDARY_SEAM", "SCULPT_BOUNDARY_UV"}

CornerTypes ==
  {"SCULPT_CORNER_MESH", "SCULPT_CORNER_FACE_SET", "SCULPT_CORNER_SEAM",
   "SCULPT_CORNER_SHARP", "SCULPT_CORNER_UV"}

\* The flags of the vertex after the switch on the backend that opens
\* SCULPT_vertex_is_corner.
CornerFlagsUpdate(type, fm, flag, index) ==
  IF "NEED_BOUNDARY" \notin flag THEN flag
  ELSE CASE type = "BMESH" -> BKE_pbvh_update_vert_boundary(fm, flag, index)
         [] type = "FACES" -> faces_update_boundary_flags(fm, flag, index)
         [] OTHER -> grids_update_boundary_flags(fm, flag, index)

\* SCULPT_vertex_is_corner: the flags it leaves and the types it returns.
SCULPT_vertex_is_corner(type, fm, flag, index, cornertype) ==
  LET after == CornerFlagsUpdate(type, fm, flag, index)
  IN  [flag |-> after, ret |-> {t \in cornertype : CornerFlagOf(t) \in after}]

\* SCULPT_vertex_is_boundary: the flags it leaves and the types it returns.
SCULPT_vertex_is_boundary(type, fm, flag, index, boundary_types) ==
  IF type = "GRIDS"
    THEN LET adj == BKE_subdiv_ccg_coarse_mesh_adjacency_info_get(fm, index)
         IN  [flag |-> flag,
              ret |-> CASE adj.adjacency = "SUBDIV_CCG_ADJACENT_VERTEX" ->
                             IF sculpt_check_boundary_vertex_in_base_mesh(fm, adj.v1)
                               THEN {"SCULPT_BOUNDARY_MESH"} ELSE {}
                        [] adj.adjacency = "SUBDIV_CCG_ADJACENT_EDGE" ->
                             IF /\ sculpt_check_boundary_vertex_in_base_mesh(fm, adj.v1)
                                /\ sculpt_check_boundary_vertex_in_base_mesh(fm, adj.v2)
                               THEN {"SCULPT_BOUNDARY_MESH"} ELSE {}
                        [] OTHER -> {}]
    ELSE LET after == IF "NEED_BOUNDARY" \notin flag THEN flag
                      ELSE IF type = "BMESH"
                        THEN BKE_pbvh_update_vert_boundary(fm, flag, index)
                      ELSE faces_update_boundary_flags(fm, flag, index)
         IN  [flag |-> after, ret |-> {t \in boundary_types : BoundaryFlagOf(t) \in after}]

\* The face sets of the faces: hidden (negative) or visible.
BoundaryFaceSets(polys) ==
  {fs \in [1..Len(polys) -> {0 - 1, 1, 2}] : \A f \in 1..Len(polys) : f > 2 => fs[f] = 1}

\* The masks the callers pass.
BoundaryMasks ==
  {{"SCULPT_BOUNDARY_MESH"}, {"SCULPT_BOUNDARY_FACE_SET"},
   {"SCULPT_BOUNDARY_MESH", "SCULPT_BOUNDARY_FACE_SET"}, BoundaryTypes}

CornerMasks ==
  {{"SCULPT_CORNER_MESH"}, {"SCULPT_CORNER_FACE_SET"}, CornerTypes}

BoundaryInit ==
  /\ pin = [fn |-> "none"]
  /\ pout = NoResult
  /\ pbvh_type \in {"FACES", "GRIDS", "BMESH"}
  /\ \E polys \in BoundaryPolys : \E fs \in BoundaryFaceSets(polys) :
       fmesh = [mpoly |-> polys, face_sets |-> fs]
  /\ \E stale \in {{}, {"BOUNDARY", "CORNER", "FSET_BOUNDARY"}} :
       msculptvert = [i \in BoundaryVertIndices(pbvh_type, fmesh) |->
                        [flag |-> stale \cup {"NEED_BOUNDARY"}]]
  /\ bm = <<>>
  /\ tasks = <<>>
  /\ hidden = {}
  /\ medge = <<>>
  /\ fset_hidden = {}
  /\ use_fake_neighbors = FALSE
  /\ fake_neighbor_index = <<>>
  /\ flood = [phase |-> "none"]
  /\ flood_calls = <<>>
  /\ co = <<>>
  /\ connected_component = <<>>
  /\ current_max_distance = 0
  /\ fake_pc = [i |-> PBVH_REF_NONE]
  /\ topology_edits = 0
  /\ StrokeIdle

boundaryIdle ==
  <<pbvh_type, medge, hidden, fset_hidden, fmesh, bm, tasks, fakeVars, floodVars, ccVars,
    topology_edits, strokeVars>>

Vertex_is_boundary ==
  \E i \in BoundaryVertIndices(pbvh_type, fmesh), boundary_types \in BoundaryMasks :
    LET r == SCULPT_vertex_is_boundary(pbvh_type, fmesh, msculptvert[i].flag, i, boundary_types)
    IN  /\ pin.fn = "none"
        /\ msculptvert' = [msculptvert EXCEPT ![i].flag = r.flag]
        /\ pin' = [fn |-> "vertex_is_boundary", vertex |-> i, boundary_types |-> boundary_types,
                   flag |-> msculptvert[i].flag]
        /\ pout' = <<r.ret>>
        /\ UNCHANGED boundaryIdle

Vertex_is_corner ==
  \E i \in BoundaryVertIndices(pbvh_type, fmesh), cornertype \in CornerMasks :
    LET r == SCULPT_vertex_is_corner(pbvh_type, fmesh, msculptvert[i].flag, i, cornertype)
    IN  /\ pin.fn = "none"
        /\ msculptvert' = [msculptvert EXCEPT ![i].flag = r.flag]
        /\ pin' = [fn |-> "vertex_is_corner", vertex |-> i, cornertype |-> cornertype,
                   flag |-> msculptvert[i].flag]
        /\ pout' = <<r.ret>>
        /\ UNCHANGED boundaryIdle

Check_unique_face_set_for_edge ==
  \E v1 \in PolyVerts(fmesh) : \E v2 \in EdgeVertsOf(fmesh, v1) :
    /\ pin.fn = "none"
    /\ pin' = [fn |-> "check_unique_face_set_for_edge", v1 |-> v1, v2 |-> v2]
    /\ pout' = <<sculpt_check_unique_face_set_for_edge_in_base_mesh(fmesh, v1, v2)>>
    /\ UNCHANGED <<msculptvert, boundaryIdle>>

BoundaryNext ==
  \/ Vertex_is_boundary
  \/ Vertex_is_corner
  \/ Check_unique_face_set_for_edge

SpecBoundary == BoundaryInit /\ [][BoundaryNext]_vars

\* C32: on every backend, a call of SCULPT_vertex_is_boundary or of
\* SCULPT_vertex_is_corner on a vertex whose NEED_BOUNDARY flag is set leaves
\* the flag clear.
C32_ReadClearsNeedBoundary ==
  (pin.fn \in {"vertex_is_boundary", "vertex_is_corner"} /\ "NEED_BOUNDARY" \in pin.flag)
  => "NEED_BOUNDARY" \notin msculptvert[pin.vertex].flag

\* The number of edges of a vertex.
BoundaryValence(fm, v) == Cardinality(EdgeVertsOf(fm, v))

\* C33: on PBVH_FACES the recomputation flags a vertex as a mesh corner
\* exactly when it is a mesh boundary vertex with fewer than four edges none
\* of whose faces has four or more sides.
C33_CornerIffBoundaryLowValenceNoQuad ==
  (/\ pin.fn \in {"vertex_is_boundary", "vertex_is_corner"}
   /\ pbvh_type = "FACES"
   /\ "NEED_BOUNDARY" \in pin.flag)
  => ("CORNER" \in msculptvert[pin.vertex].flag
        <=> /\ pin.vertex \in SCULPT_boundary_info_ensure(fmesh)
            /\ BoundaryValence(fmesh, pin.vertex) < 4
            /\ \A f \in PolysOfVert(fmesh, pin.vertex) : Len(fmesh.mpoly[f]) < 4)

\* The faces on the edge between two vertices.
PolysOfEdge(fm, v1, v2) == {f \in 1..Len(fm.mpoly) : {v1, v2} \in PolyEdges(fm.mpoly[f])}

\* C34: for an edge with two faces the edge check answers true exactly when
\* the face sets of the two faces have the same magnitude, whatever their
\* visibility sign.
C34_EdgeCheckIgnoresSign ==
  (/\ pin.fn = "check_unique_face_set_for_edge"
   /\ Cardinality(PolysOfEdge(fmesh, pin.v1, pin.v2)) = 2)
  => (pout[1] <=> \A f, g \in PolysOfEdge(fmesh, pin.v1, pin.v2) :
                    Abs(fmesh.face_sets[f]) = Abs(fmesh.face_sets[g]))

\* C40: on every backend SCULPT_vertex_is_boundary returns only boundary
\* types of the requested mask.
C40_BoundaryWithinMask ==
  pin.fn = "vertex_is_boundary" => pout[1] \subseteq pin.boundary_types

(***************************************************************************)
(* Radial symmetry.                                                        *)
(***************************************************************************)

\* The brush actions of mirror pass i on the main tile that the last update
\* step logged for the command at place k: one for each run of do_tiled.
TiledRuns(k, i) ==
  SelectSeq(ActionsOf(k), LAMBDA e : e.mirror_symmetry_pass = i /\ e.tile_pass = 0)

\* The radial passes about one axis with count n, in order: pass j is turned
\* by the j-th n-th of a full turn from location loc.
RadialPasses(loc, axis, n) ==
  IF n <= 1 THEN <<>>
  ELSE [j \in 1..(n - 1) |->
          [radial_symmetry_pass |-> j,
           location |-> rotate_v3(loc, axis, QuarterTurns([i |-> j, n |-> n]))]]

\* C35: for every valid mirror pass, the runs of the tile expansion are the
\* run of the mirror pass itself and then, for each of the axes X, Y, Z with
\* radial count n, exactly n - 1 runs with radial pass 1..n-1, the j-th at the
\* angle 2 * pi * j / n about the axis; a count of 1 or less adds none.
C35_RadialPassesPerAxis ==
  pin.fn = "stroke_update_step"
  => \A k \in 1..Len(sd.commands) : \A i \in 0..sd.symm :
       (Executed(k) /\ SCULPT_is_symmetry_iteration_valid(i, sd.symm)) =>
         LET loc == flip_v3_v3(cache[1].true_location, i)
             runs == TiledRuns(k, i)
             expected == <<[radial_symmetry_pass |-> 0, location |-> loc]>>
                           \o RadialPasses(loc, "X", sd.radial_symm[1])
                           \o RadialPasses(loc, "Y", sd.radial_symm[2])
                           \o RadialPasses(loc, "Z", sd.radial_symm[3])
         IN  /\ Len(runs) = Len(expected)
             /\ \A j \in 1..Len(runs) :
                  /\ runs[j].radial_symmetry_pass = expected[j].radial_symmetry_pass
                  /\ runs[j].location = expected[j].location
C35_Witness ==
  /\ pin.fn = "stroke_update_step"
  /\ sd.symm = 1
  /\ sd.radial_symm = <<2, 4, 1>>
  /\ Executed(1)
  /\ Len(TiledRuns(1, 1)) = 5
  /\ TiledRuns(1, 1)[3].location # TiledRuns(1, 1)[1].location

\* C36: on every way a stroke ends (the normal end, a cancel that runs the
\* stroke end first, a cancel of a stroke that never started),
\* SCULPT_cache_free is called at most once on the cache of the stroke and
\* never without a cache.
C36_CacheFreedAtMostOnce ==
  /\ stroke.cache_frees <= 1
  /\ stroke.null_frees = 0
C36_Witness ==
  /\ pin.fn = "stroke_cancel"
  /\ stroke.steps >= 1
  /\ stroke.cache_frees = 1
  /\ stroke.null_frees = 0

\* C38: when a stroke of the mask tool that started in the smooth mode ends,
\* by its normal end or by a cancel, the brush's mask_tool is the one the
\* brush had before the stroke.
C38_MaskToolRestored ==
  (/\ pin.fn \in {"stroke_done", "stroke_cancel"}
   /\ sd.tool = "MASK"
   /\ pre_stroke # <<>>
   /\ pre_stroke.mode = "BRUSH_STROKE_SMOOTH")
  => sd.mask_tool = pre_stroke.mask_tool
C38_Witness ==
  /\ pin.fn = "stroke_cancel"
  /\ sd.tool = "MASK"
  /\ pre_stroke # <<>>
  /\ pre_stroke.mode = "BRUSH_STROKE_SMOOTH"
  /\ stroke.steps >= 1
  /\ sd.mask_tool = "BRUSH_MASK_DRAW"

\* C39: when the deform target is the cloth simulation, every update step
\* whose command list ran performs exactly one cloth simulation step, under
\* every mirror, radial and tiling setting: after each step the simulation
\* has stepped as often as the stroke.
C39_OneClothStepPerStrokeStep ==
  (/\ pin.fn = "stroke_update_step"
   /\ sd.deform_target = "BRUSH_DEFORM_TARGET_CLOTH_SIM")
  => cache[1].cloth_sim_steps = stroke.steps

\* A step of the executing flood fill that adds a vertex to the queue adds a
\* vertex that had not been visited and marks it visited.
EnqueueIsFirstVisit ==
  (flood.phase = "executing" /\ flood'.phase = "executing"
     /\ Len(flood'.queue) > Len(flood.queue))
  => LET to_index == BKE_pbvh_vertex_to_index(pbvh_type, flood'.queue[Len(flood'.queue)])
     IN  /\ Len(flood'.queue) = Len(flood.queue) + 1
         /\ to_index \notin flood.visited_vertices
         /\ to_index \in flood'.visited_vertices
         /\ flood.visited_vertices \subseteq flood'.visited_vertices

\* C37: SCULPT_floodfill_execute terminates, on every mesh and for every
\* visitor: once the seeds are in, a vertex is queued only when it is first
\* visited, hence at most once, and a flood fill that is executing reaches
\* the end of the call.
C37_ExecuteTerminates ==
  /\ [][EnqueueIsFirstVisit]_vars
  /\ (flood.phase = "executing") ~> (flood.phase = "done")

\* A flood fill over a mesh with a cycle, where the visitor asked for every
\* vertex it was shown to be queued, has run to its end.
C37_Witness ==
  /\ flood.phase = "done"
  /\ Len(medge) >= NumVerts
  /\ Len(flood_calls) >= 2
  /\ flood.visited_vertices = VertIndices

====
